---- MODULE Spec2Model ----
(***************************************************************************)
(* Model of the business-name naturalization pipeline:                     *)
(*   naturalizeNames            (src/src/services/openrouter.js)           *)
(*   processBatch               (src/unnamed/part_006, services/processor) *)
(*   the cache and record store (src/src/db/queries.js, SQL in part_005)   *)
(* A string is a sequence of one-character strings, so that the parsing of *)
(* the upstream response is computed as the code computes it.              *)
(***************************************************************************)
EXTENDS Integers, Sequences, FiniteSets, TLC

VARIABLES
  call,      \* the activation of naturalizeNames (one per run, sequential)
  records,   \* table outbound_email_targets: place_id -> row
  cache,     \* table business_name_naturalizations: a set of rows
  run,       \* the activation of processBatch
  config,    \* the environment the process was started with
  conc,      \* the activation of processConcurrently
  uniq,      \* the activation of processUniqueNames
  hist       \* observations of the behaviour so far (no effect on the program)

vars == <<call, records, cache, run, config, conc, uniq, hist>>

----------------------------------------------------------------------------
(* Bounds of the model *)

MaxContentLen == 4     \* longest upstream response content, in characters
MaxBatch == 3          \* longest name list handed to naturalizeNames alone
MaxRecords == 2        \* rows of outbound_email_targets
MaxRuns == 2           \* successive runs of processBatch
MaxBatchSize == 2      \* largest configured BATCH_SIZE
MaxConcurrency == 2    \* largest configured CONCURRENT_REQUESTS

(* Program constants *)

MAX_RETRIES == 3
RETRY_DELAY == 3000

\* parseInt(process.env.BATCH_SIZE) || 8: names per API call
BATCH_SIZE == config.BATCH_SIZE

\* const chunkSize = 100 of updateRecordsWithNaturalNames: the largest number
\* of updates dispatched together. The runs of processBatch keep 100; where
\* the number of updates in flight is the question it is scaled to 1, two
\* rows standing for more than a hundred
chunkSize == config.chunkSize

\* options.concurrency || parseInt(process.env.CONCURRENT_REQUESTS) || 10
CONCURRENCY == config.CONCURRENCY

\* the retry constants of the concurrent processor
CONC_MAX_RETRIES == 3
CONC_RETRY_DELAY == 2000

----------------------------------------------------------------------------
(* Text: JavaScript string operations on sequences of characters *)

NL == "\n"
Digits == {"0", "1", "2", "3", "4", "5", "6", "7", "8", "9"}
Whitespace == {" ", NL}
Chars == {"x", "1", ".", " ", NL}

Null == <<"null">>        \* SQL NULL / JavaScript undefined: no string

Min(S) == CHOOSE m \in S : \A n \in S : m <= n

RECURSIVE TrimStart(_)
TrimStart(s) ==
  IF s # <<>> /\ Head(s) \in Whitespace THEN TrimStart(Tail(s)) ELSE s

RECURSIVE TrimEnd(_)
TrimEnd(s) ==
  IF s # <<>> /\ s[Len(s)] \in Whitespace
    THEN TrimEnd(SubSeq(s, 1, Len(s) - 1))
    ELSE s

\* String.prototype.trim
Trim(s) == TrimEnd(TrimStart(s))

\* content.split('\n')
RECURSIVE Split(_)
Split(s) ==
  LET idx == {i \in 1..Len(s) : s[i] = NL} IN
  IF idx = {} THEN <<s>>
  ELSE LET i == Min(idx) IN
       <<SubSeq(s, 1, i - 1)>> \o Split(SubSeq(s, i + 1, Len(s)))

RECURSIVE SkipDigits(_)
SkipDigits(s) ==
  IF s # <<>> /\ Head(s) \in Digits THEN SkipDigits(Tail(s)) ELSE s

\* line.replace(/^\d+\.\s*/, '')
StripOrdinal(line) ==
  LET r == SkipDigits(line) IN
  IF Len(r) < Len(line) /\ r # <<>> /\ Head(r) = "."
    THEN TrimStart(Tail(r))
    ELSE line

\* lines = content.trim().split('\n').filter(line => line.trim())
NonBlankLines(content) ==
  SelectSeq(Split(Trim(content)), LAMBDA l : Trim(l) # <<>>)

\* naturalNames = lines.map(line => line.replace(/^\d+\.\s*/, '').trim())
ParseResponse(content) ==
  LET lines == NonBlankLines(content) IN
  [i \in 1..Len(lines) |-> Trim(StripOrdinal(lines[i]))]

\* a padding that takes the original names from the start of the list
PadFromStart(naturalNames, businessNames) ==
  IF Len(naturalNames) < Len(businessNames)
    THEN naturalNames \o
         SubSeq(businessNames, 1, Len(businessNames) - Len(naturalNames))
    ELSE naturalNames

\* while (naturalNames.length < businessNames.length)
\*   naturalNames.push(businessNames[naturalNames.length])
PadWithOriginal(naturalNames, businessNames) ==
  IF Len(naturalNames) < Len(businessNames)
    THEN naturalNames \o
         SubSeq(businessNames, Len(naturalNames) + 1, Len(businessNames))
    ELSE naturalNames

\* JavaScript a || b on strings: b when a is undefined or the empty string
OrElse(a, b) == IF a = Null \/ a = <<>> THEN b ELSE a

\* JavaScript arr[j] (0-based j): undefined beyond the end
At(arr, j) == IF j + 1 \in 1..Len(arr) THEN arr[j + 1] ELSE Null

----------------------------------------------------------------------------
(* naturalizeNames(businessNames, retryCount = 0) *)

\* The upstream failures the catch block can see: an HTTP status of the
\* generation API (402 quota exhausted, 429 rate limited) or 500 for every
\* other failure (HTTP 5xx, network error, timeout, malformed body).
ErrorStatus == {402, 429, 500}

NoCall == [pc |-> "none", names |-> <<>>, retryCount |-> 0, result |-> <<>>,
           delays |-> <<>>, parsed |-> <<>>, answered |-> FALSE]

\* entry of naturalizeNames: the request of attempt retryCount + 1 is posted
NewCall(businessNames) ==
  [NoCall EXCEPT !.pc = "request", !.names = businessNames]

\* lines 77-97: the request answered with content
OnResponse(c, content) ==
  [c EXCEPT !.pc = "returned",
            !.result = PadWithOriginal(ParseResponse(content), c.names),
            !.parsed = ParseResponse(content),
            !.answered = TRUE]

\* a catch block that compares retryCount <= MAX_RETRIES
OnErrorOffByOne(c, status) ==
  IF c.retryCount <= MAX_RETRIES
    THEN [c EXCEPT !.pc = "sleeping",
                   !.delays = Append(c.delays, RETRY_DELAY)]
    ELSE [c EXCEPT !.pc = "returned",
                   !.result = c.names]

\* lines 99-115: the catch block, for a failure of the given status
OnError(c, status) ==
  IF c.retryCount < MAX_RETRIES
    THEN [c EXCEPT !.pc = "sleeping",
                   !.delays = Append(c.delays, RETRY_DELAY)]
    ELSE [c EXCEPT !.pc = "returned",
                   !.result = c.names]

\* line 109: after the delay, naturalizeNames(businessNames, retryCount + 1)
OnWake(c) == [c EXCEPT !.pc = "request", !.retryCount = c.retryCount + 1]

----------------------------------------------------------------------------
(* The stores *)

NameA == <<"a">>
NameB == <<"b">>
NameC == <<"c">>
Names == {NameA, NameB, NameC}

PlaceIds == 1..MaxRecords

\* JavaScript objects used as maps: functions on a finite set of keys
EmptyMap == [k \in {} |-> Null]
Get(m, k) == IF k \in DOMAIN m THEN m[k] ELSE Null
Put(m, k, v) == [x \in DOMAIN m \cup {k} |-> IF x = k THEN v ELSE m[x]]

\* a query without the filter natural_name IS NULL
PendingUnfiltered(recs) ==
  {p \in DOMAIN recs : recs[p].google_name # Null}

\* the rows of outbound_email_targets with natural_name IS NULL and
\* google_name IS NOT NULL
Pending(recs) ==
  {p \in DOMAIN recs : recs[p].natural_name = Null /\ recs[p].google_name # Null}

\* the elements of a finite set of numbers, ascending
RECURSIVE Ascending(_)
Ascending(S) == IF S = {} THEN <<>> ELSE <<Min(S)>> \o Ascending(S \ {Min(S)})

\* getRecordsToProcess(limit): what the query can answer, the schema giving no
\* order: any min(limit, pending) of the pending rows
FetchAnswers(recs, limit) ==
  LET pend == Pending(recs)
      n == IF Cardinality(pend) < limit THEN Cardinality(pend) ELSE limit
  IN {S \in SUBSET pend : Cardinality(S) = n}

getRecordsToProcess(recs, S) ==
  LET ids == Ascending(S) IN
  [i \in 1..Len(ids) |-> [place_id |-> ids[i], google_name |-> recs[ids[i]].google_name]]

\* [...new Set(records.map(r => r.google_name))]: first occurrences, in order
RECURSIVE Unique(_)
Unique(s) ==
  IF s = <<>> THEN <<>>
  ELSE LET rest == Unique(SubSeq(s, 1, Len(s) - 1)) IN
       IF \E i \in 1..Len(rest) : rest[i] = s[Len(s)]
         THEN rest ELSE Append(rest, s[Len(s)])

\* getCachedNaturalNames(originalNames): the rows found, as a map
getCachedNaturalNames(rows, originalNames) ==
  LET found == {r \in rows : \E i \in 1..Len(originalNames) :
                               originalNames[i] = r.original_name}
  IN [k \in {r.original_name : r \in found} |->
        (CHOOSE r \in found : r.original_name = k).natural_name]

\* an upsert without the usage trigger
UpsertRowKeepCount(rows, e) ==
  IF \E r \in rows : r.original_name = e.original_name
    THEN {IF r.original_name = e.original_name
            THEN [r EXCEPT !.natural_name = e.natural_name]
            ELSE r : r \in rows}
    ELSE rows \cup {[original_name |-> e.original_name,
                     natural_name |-> e.natural_name,
                     usage_count |-> 1]}

\* one row of upsert(names, {onConflict: 'original_name'}): INSERT, or on a
\* conflict UPDATE natural_name; the trigger track_naturalization_usage
\* counts the update when the natural name changes
UpsertRow(rows, e) ==
  IF \E r \in rows : r.original_name = e.original_name
    THEN {IF r.original_name = e.original_name
            THEN [r EXCEPT !.natural_name = e.natural_name,
                           !.usage_count =
                              IF r.natural_name # e.natural_name
                                THEN r.usage_count + 1 ELSE r.usage_count]
            ELSE r : r \in rows}
    ELSE rows \cup {[original_name |-> e.original_name,
                     natural_name |-> e.natural_name,
                     usage_count |-> 1]}

\* a save that replaces the table by the rows it is given
saveToCacheReplacing(rows, names) ==
  {[original_name |-> names[j].original_name,
    natural_name |-> names[j].natural_name,
    usage_count |-> 1] : j \in 1..Len(names)}

\* saveToCache(names), the statement succeeding
RECURSIVE saveToCache(_, _)
saveToCache(rows, names) ==
  IF names = <<>> THEN rows
  ELSE saveToCache(UpsertRow(rows, Head(names)), Tail(names))

\* update({natural_name}).eq('place_id', place_id), the statement succeeding
updateNaturalName(recs, place_id, natural_name) ==
  [recs EXCEPT ![place_id].natural_name = natural_name]

----------------------------------------------------------------------------
(* processBatch(options) *)

\* stats that start with an error counted
NewStatsCounted == [processed |-> 0, naturalized |-> 0, from_cache |-> 0,
                    api_calls |-> 0, errors |-> 1, status |-> "started"]

NewStats == [processed |-> 0, naturalized |-> 0, from_cache |-> 0,
             api_calls |-> 0, errors |-> 0, status |-> "started"]

IdleRun == [pc |-> "idle", limit |-> 0, records |-> <<>>, uniqueNames |-> <<>>,
            uncachedNames |-> <<>>, naturalizedMap |-> EmptyMap, i |-> 0,
            batch |-> <<>>, naturalNames |-> <<>>, parsed |-> <<>>,
            answered |-> FALSE, cacheEntries |-> <<>>, updates |-> <<>>,
            settled |-> <<>>, base |-> 0, errors0 |-> 0, stats |-> NewStats]

\* runNo: the runs started; requested: the current run has posted a request
\* to the generation API; truncated: its fetch left pending rows behind;
\* prev: the record table when the current run started, after an earlier run;
\* prevStatus: the status the previous run ended with;
\* prevClean: the previous run completed, fetched every pending row and had
\* no failed update; log: for naturalizeNames called alone, the outcome of
\* each of its attempts (200, or the status of the failure); quota: a request
\* of a concurrent run has been answered 402; crash: the run that was killed
\* last and, for every row then pending whose display name had a cache
\* entry, the natural name of that entry; unres: the run of processUniqueNames
\* that ended on exhausted credits last and the rows then pending whose names
\* it had not finished
NewHist == [runNo |-> 0, requested |-> FALSE, truncated |-> FALSE,
            prev |-> <<>>, prevStatus |-> "none", prevClean |-> FALSE,
            log |-> <<>>, quota |-> FALSE, crash |-> [at |-> 0, rows |-> {}],
            unres |-> [at |-> 0, rows |-> {}]]

\* the responses the generation API gives in a run: no line; one line;
\* three numbered lines; three lines of which the first is only an ordinal
Contents ==
  { <<>>,
    <<"x">>,
    <<"1", ".", " ", "x", NL, "2", ".", "y", NL, "3", ".", " ", "x">>,
    <<"1", ".", NL, "y", NL, "x">> }

\* lines 16-31: stats initialised, the limit taken from options
Start(limit) ==
  /\ run.pc \in {"idle", "done", "failed"}
  /\ hist.runNo < MaxRuns
  /\ call.pc = "none"
  /\ run' = [IdleRun EXCEPT !.pc = "fetch", !.limit = limit]
  /\ hist' = [hist EXCEPT !.runNo = hist.runNo + 1,
                          !.requested = FALSE,
                          !.truncated = FALSE,
                          !.prev = IF hist.runNo = 0 THEN <<>> ELSE records,
                          !.prevStatus =
                             IF hist.runNo = 0 THEN "none" ELSE run.stats.status,
                          !.prevClean =
                             /\ hist.runNo > 0
                             /\ run.pc = "done"
                             /\ ~hist.truncated
                             /\ \A k \in 1..Len(run.settled) : run.settled[k] = "ok"]
  /\ UNCHANGED <<config, conc, uniq, call, records, cache>>

\* a filter that keeps every unique name, cached or not
UncachedAll(uniqueNames, cachedNames) == uniqueNames

\* uncachedNames = uniqueNames.filter(name => !cachedNames[name])
Uncached(uniqueNames, cachedNames) ==
  SelectSeq(uniqueNames, LAMBDA n : OrElse(Get(cachedNames, n), Null) = Null)

\* lines 31-43: the fetch answered with the rows S
FetchOk(S) ==
  /\ run.pc = "fetch"
  /\ S \in FetchAnswers(records, run.limit)
  /\ LET recs == getRecordsToProcess(records, S) IN
       /\ run' = IF Len(recs) = 0
                   THEN [run EXCEPT !.pc = "done", !.limit = 0,
                                    !.stats.status = "no_records"]
                   ELSE [run EXCEPT
                           !.pc = "lookup",
                           !.limit = 0,
                           !.records = recs,
                           !.uniqueNames =
                              Unique([k \in 1..Len(recs) |-> recs[k].google_name])]
       /\ hist' = [hist EXCEPT !.truncated = (S # Pending(records))]
  /\ UNCHANGED <<config, conc, uniq, call, records, cache>>

\* lines 31, 148-159: the fetch throws; the outer catch rethrows
FetchFail ==
  /\ run.pc = "fetch"
  /\ run' = [run EXCEPT !.pc = "failed",
                        !.limit = 0,
                        !.stats.status = "error",
                        !.stats.errors = run.stats.errors + 1]
  /\ UNCHANGED <<config, conc, uniq, call, records, cache, hist>>

\* updates that give the mapped name to the first record of a name only
UpdatesFirstOnly(recs, naturalizedMap) ==
  [k \in 1..Len(recs) |->
     [place_id |-> recs[k].place_id,
      natural_name |->
        IF \E j \in 1..(k - 1) : recs[j].google_name = recs[k].google_name
          THEN recs[k].google_name
          ELSE OrElse(Get(naturalizedMap, recs[k].google_name),
                      recs[k].google_name)]]

\* lines 109-112: updates = records.map(...)
Updates(recs, naturalizedMap) ==
  [k \in 1..Len(recs) |->
     [place_id |-> recs[k].place_id,
      natural_name |-> OrElse(Get(naturalizedMap, recs[k].google_name),
                              recs[k].google_name)]]

\* lines 106-114, queries.js 464-474: the updates are built and those of the
\* first chunk dispatched; the locals of the resolving loop are dead
EnterUpdate(r) ==
  [IdleRun EXCEPT !.pc = "update",
                  !.records = r.records,
                  !.updates = Updates(r.records, r.naturalizedMap),
                  !.settled = [k \in 1..Len(r.records) |-> "pending"],
                  !.base = 0,
                  !.errors0 = r.stats.errors,
                  !.stats = r.stats]

\* lines 46-55: the cache lookup answered with the map cachedNames
Looked(cachedNames) ==
  LET uncached == Uncached(run.uniqueNames, cachedNames)
      r == [run EXCEPT !.uncachedNames = uncached,
                       !.naturalizedMap = cachedNames,
                       !.i = 0,
                       !.stats.from_cache = Cardinality(DOMAIN cachedNames)]
  IN run' = IF Len(uncached) > 0 THEN [r EXCEPT !.pc = "batch"]
                                 ELSE EnterUpdate(r)

LookupOk ==
  /\ run.pc = "lookup"
  /\ Looked(getCachedNaturalNames(cache, run.uniqueNames))
  /\ UNCHANGED <<config, conc, uniq, call, records, cache, hist>>

\* a lookup that raises the backend error: the outer catch ends the run
LookupFailRaising ==
  /\ run.pc = "lookup"
  /\ run' = [run EXCEPT !.pc = "failed", !.stats.status = "error",
                        !.stats.errors = run.stats.errors + 1]
  /\ UNCHANGED <<config, conc, uniq, call, records, cache, hist>>

\* queries.js lines 397-403, 416-421: a backend error answers the empty map
LookupFail ==
  /\ run.pc = "lookup"
  /\ Looked(EmptyMap)
  /\ UNCHANGED <<config, conc, uniq, call, records, cache, hist>>

\* lines 58-67: batch = uncachedNames.slice(i, i + BATCH_SIZE), then the call
Slice(s, from, to) ==
  SubSeq(s, from + 1, IF to < Len(s) THEN to ELSE Len(s))

Dispatch ==
  /\ run.pc = "batch"
  /\ call.pc = "none"
  /\ LET batch == Slice(run.uncachedNames, run.i, run.i + BATCH_SIZE) IN
       /\ run' = [run EXCEPT !.pc = "natcall", !.batch = batch,
                             !.naturalNames = <<>>, !.parsed = <<>>,
                             !.answered = FALSE, !.cacheEntries = <<>>]
       /\ call' = NewCall(batch)
  /\ hist' = [hist EXCEPT !.requested = TRUE]
  /\ UNCHANGED <<config, conc, uniq, records, cache>>

\* a mapping loop that runs over the names returned, not over the batch
CacheEntriesOverReturned(batch, naturalNames) ==
  [j \in 1..Len(naturalNames) |->
     [original_name |-> At(batch, j - 1),
      natural_name |-> OrElse(At(naturalNames, j - 1), At(batch, j - 1))]]

\* cacheEntries that leave out the names that came back unchanged
CacheEntriesResolvedOnly(batch, naturalNames) ==
  SelectSeq([j \in 1..Len(batch) |->
               [original_name |-> batch[j],
                natural_name |-> OrElse(At(naturalNames, j - 1), batch[j])]],
            LAMBDA e : e.natural_name # e.original_name)

\* lines 71-81: cacheEntries of the batch from the names returned
CacheEntries(batch, naturalNames) ==
  [j \in 1..Len(batch) |->
     [original_name |-> batch[j],
      natural_name |-> OrElse(At(naturalNames, j - 1), batch[j])]]

\* naturalizedMap[originalName] = naturalName, for every entry
RECURSIVE PutAll(_, _)
PutAll(m, entries) ==
  IF entries = <<>> THEN m
  ELSE PutAll(Put(m, Head(entries).original_name, Head(entries).natural_name),
              Tail(entries))

\* lines 99-101: naturalizedMap[name] = name, for every name of the batch
Identity(batch) ==
  [j \in 1..Len(batch) |-> [original_name |-> batch[j], natural_name |-> batch[j]]]

\* lines 67-84: naturalizeNames has returned c.result; the results are
\* mapped and saveToCache is called
MapResults(r, c) ==
  LET entries == CacheEntries(r.batch, c.result) IN
  [r EXCEPT !.pc = "save",
            !.naturalNames = c.result,
            !.parsed = c.parsed,
            !.answered = c.answered,
            !.cacheEntries = entries,
            !.naturalizedMap = PutAll(r.naturalizedMap, entries),
            !.stats.api_calls = r.stats.api_calls + 1]

\* the call of processBatch line 67 proceeds to c: it goes on retrying, or
\* it returns and processBatch continues at line 68
Proceed(c) ==
  IF c.pc = "returned"
    THEN call' = NoCall /\ run' = MapResults(run, c)
    ELSE call' = c /\ run' = run

\* openrouter.js lines 48-97: the pending request is answered with content
BatchRespond(content) ==
  /\ run.pc = "natcall"
  /\ call.pc = "request"
  /\ Proceed(OnResponse(call, content))
  /\ UNCHANGED <<config, conc, uniq, records, cache, hist>>

\* openrouter.js lines 99-115: the pending request fails with status
BatchFail(status) ==
  /\ run.pc = "natcall"
  /\ call.pc = "request"
  /\ Proceed(OnError(call, status))
  /\ UNCHANGED <<config, conc, uniq, records, cache, hist>>

\* openrouter.js lines 108-109: the retry delay has passed, the next request
NatWake ==
  /\ call.pc = "sleeping"
  /\ call' = OnWake(call)
  /\ UNCHANGED <<config, conc, uniq, records, cache, run, hist>>

\* naturalizeNames called alone: the pending request is answered with content
NatRespond(content) ==
  /\ run.pc = "idle"
  /\ call.pc = "request"
  /\ call' = OnResponse(call, content)
  /\ hist' = [hist EXCEPT !.log = Append(hist.log, 200)]
  /\ UNCHANGED <<config, conc, uniq, records, cache, run>>

\* naturalizeNames called alone: the pending request fails with status
NatFail(status) ==
  /\ run.pc = "idle"
  /\ call.pc = "request"
  /\ call' = OnError(call, status)
  /\ hist' = [hist EXCEPT !.log = Append(hist.log, status)]
  /\ UNCHANGED <<config, conc, uniq, records, cache, run>>

\* the loop of lines 58-103 continues with the next batch, after the pacing
\* delay of lines 90-92 when the batch succeeded, or ends
AfterBatch(r, paced) ==
  IF r.i + BATCH_SIZE < Len(r.uncachedNames)
    THEN [r EXCEPT !.pc = IF paced THEN "pacing" ELSE "batch",
                   !.i = r.i + BATCH_SIZE]
    ELSE EnterUpdate([r EXCEPT !.i = r.i + BATCH_SIZE])

\* lines 84-92: saveToCache succeeded
SaveOk ==
  /\ run.pc = "save"
  /\ cache' = saveToCache(cache, run.cacheEntries)
  /\ run' = AfterBatch(
              [run EXCEPT !.stats.naturalized =
                             run.stats.naturalized + Len(run.cacheEntries)],
              TRUE)
  /\ UNCHANGED <<config, conc, uniq, call, records, hist>>

\* lines 94-102: saveToCache threw; the batch falls back to its own names
SaveFail ==
  /\ run.pc = "save"
  /\ run' = AfterBatch(
              [run EXCEPT !.stats.errors = run.stats.errors + 1,
                          !.naturalizedMap =
                             PutAll(run.naturalizedMap, Identity(run.batch))],
              FALSE)
  /\ UNCHANGED <<config, conc, uniq, call, records, cache, hist>>

\* lines 90-92: DELAY_BETWEEN_CALLS has passed
Paced ==
  /\ run.pc = "pacing"
  /\ run' = [run EXCEPT !.pc = "batch"]
  /\ UNCHANGED <<config, conc, uniq, call, records, cache, hist>>

\* the updates in flight: those of the chunk at base not yet settled
InFlight(r) ==
  {k \in 1..Len(r.updates) :
     /\ r.base < k /\ k <= r.base + chunkSize
     /\ r.settled[k] = "pending"}

\* queries.js lines 473-494: an update settles; when it is the last of its
\* chunk, Promise.all resolves and the next chunk is dispatched
Settle(r, k, outcome) ==
  LET s == [r EXCEPT !.settled[k] = outcome] IN
  IF InFlight(s) # {} THEN s
  ELSE IF r.base + chunkSize < Len(r.updates)
         THEN [s EXCEPT !.base = r.base + chunkSize]
         ELSE [s EXCEPT !.pc = "finish"]

\* queries.js lines 476-485: the update of updates[k] succeeds
UpdateOk(k) ==
  /\ run.pc = "update"
  /\ k \in InFlight(run)
  /\ records' = updateNaturalName(records, run.updates[k].place_id,
                                  run.updates[k].natural_name)
  /\ run' = Settle(run, k, "ok")
  /\ UNCHANGED <<config, conc, uniq, call, cache, hist>>

\* queries.js lines 481-489: the update of updates[k] fails, answers false
UpdateFail(k) ==
  /\ run.pc = "update"
  /\ k \in InFlight(run)
  /\ run' = Settle(run, k, "failed")
  /\ UNCHANGED <<config, conc, uniq, call, records, cache, hist>>

\* lines 115-146: the counters are completed and the stats returned
Finish ==
  /\ run.pc = "finish"
  /\ run' = [run EXCEPT !.pc = "done",
                        !.stats.processed = Len(run.updates),
                        !.stats.status = "completed"]
  /\ UNCHANGED <<config, conc, uniq, call, records, cache, hist>>

----------------------------------------------------------------------------
(* POST /process-urgent-leads *)

\* api.js lines 276-315: the request arrives and the query for the urgent
\* rows answers with the rows S, pending rows that pass the filters, or with
\* an error (answer 500); without rows the answer is processed: 0
UrgentFetch(limit, S, ok) ==
  /\ run.pc = "idle"
  /\ S \subseteq Pending(records) /\ Cardinality(S) <= limit
  /\ ok = FALSE => S = {}
  /\ LET recs == getRecordsToProcess(records, S) IN
       run' = IF ~ok THEN [IdleRun EXCEPT !.pc = "failed", !.stats.status = "error"]
              ELSE IF Len(recs) = 0 THEN [IdleRun EXCEPT !.pc = "done"]
              ELSE [IdleRun EXCEPT
                      !.pc = "lookup",
                      !.records = recs,
                      !.uniqueNames =
                         Unique([k \in 1..Len(recs) |-> recs[k].google_name])]
  /\ UNCHANGED <<config, conc, uniq, call, records, cache, hist>>

\* api.js lines 318-327: the cache lookup answered (with {} on an error);
\* all the uncached names are handed to naturalizeNames in one call
UrgentLookup(answered) ==
  /\ run.pc = "lookup"
  /\ LET cachedNames == IF answered
                          THEN getCachedNaturalNames(cache, run.uniqueNames)
                          ELSE EmptyMap
         uncached == Uncached(run.uniqueNames, cachedNames)
         r == [run EXCEPT !.uncachedNames = uncached,
                          !.naturalizedMap = cachedNames,
                          !.stats.from_cache = Cardinality(DOMAIN cachedNames)]
     IN IF Len(uncached) > 0
          THEN /\ run' = [r EXCEPT !.pc = "natcall", !.batch = uncached]
               /\ call' = NewCall(uncached)
          ELSE /\ run' = EnterUpdate(r)
               /\ call' = call
  /\ UNCHANGED <<config, conc, uniq, records, cache, hist>>

\* api.js lines 327-341, openrouter.js 48-115: the pending request is
\* answered 200 with content or fails with status; when naturalizeNames
\* returns, the results are mapped and saveToCache is called
UrgentAnswer(status, content) ==
  /\ run.pc = "natcall"
  /\ call.pc = "request"
  /\ status # 200 => content = <<>>
  /\ Proceed(IF status = 200 THEN OnResponse(call, content)
                             ELSE OnError(call, status))
  /\ UNCHANGED <<config, conc, uniq, records, cache, hist>>

\* api.js lines 340-352, 371-377: saveToCache succeeded and the updates of
\* all the rows are handed to updateRecordsWithNaturalNames, or it threw and
\* the request is answered 500
UrgentSave(ok) ==
  /\ run.pc = "save"
  /\ cache' = IF ok THEN saveToCache(cache, run.cacheEntries) ELSE cache
  /\ run' = IF ok THEN EnterUpdate(run)
                  ELSE [IdleRun EXCEPT !.pc = "failed", !.stats = run.stats,
                                       !.stats.status = "error"]
  /\ UNCHANGED <<config, conc, uniq, call, records, hist>>

----------------------------------------------------------------------------
(* processPriorityCategories(categories, limit), part_005 *)

\* lines 145-153, 225-229: the query of getRecordsByCategories answers with
\* the rows S, pending rows of the categories, or throws; without rows the
\* stats are returned
PriorityFetch(limit, S, ok) ==
  /\ run.pc = "idle"
  /\ S \subseteq Pending(records) /\ Cardinality(S) <= limit
  /\ ok = FALSE => S = {}
  /\ LET recs == getRecordsToProcess(records, S) IN
       run' = IF ~ok THEN [IdleRun EXCEPT !.pc = "failed", !.stats.errors = 1]
              ELSE IF Len(recs) = 0 THEN [IdleRun EXCEPT !.pc = "done"]
              ELSE [IdleRun EXCEPT
                      !.pc = "lookup",
                      !.records = recs,
                      !.uniqueNames =
                         Unique([k \in 1..Len(recs) |-> recs[k].google_name])]
  /\ UNCHANGED <<config, conc, uniq, call, records, cache, hist>>

\* lines 159-171: the cache lookup answered (with {} on an error); all the
\* uncached names are handed to naturalizeNames in one call
PriorityLookup(answered) ==
  /\ run.pc = "lookup"
  /\ LET cachedNames == IF answered
                          THEN getCachedNaturalNames(cache, run.uniqueNames)
                          ELSE EmptyMap
         uncached == Uncached(run.uniqueNames, cachedNames)
         r == [run EXCEPT !.uncachedNames = uncached,
                          !.naturalizedMap = cachedNames,
                          !.stats.from_cache = Cardinality(DOMAIN cachedNames)]
     IN IF Len(uncached) > 0
          THEN /\ run' = [r EXCEPT !.pc = "natcall"]
               /\ call' = NewCall(uncached)
          ELSE /\ run' = [r EXCEPT !.pc = "assign"]
               /\ call' = call
  /\ UNCHANGED <<config, conc, uniq, records, cache, hist>>

\* Object.entries of the array naturalizeNames returns: the keys are the
\* indices '0', '1', ... as strings
ObjectEntries(arr) ==
  LET digits == <<"0", "1", "2", "3", "4", "5", "6", "7", "8", "9">> IN
  [j \in 1..Len(arr) |-> [original_name |-> <<digits[j]>>, natural_name |-> arr[j]]]

\* lines 171-189, openrouter.js 48-115: the pending request is answered 200
\* with content or fails with status. When naturalizeNames returns, the
\* entries of its result with a truthy value are saved to the cache, the
\* write succeeding or (saved = FALSE) throwing, and the result is assigned
\* onto cachedNames
PriorityAnswer(status, content, saved) ==
  /\ run.pc = "natcall"
  /\ call.pc = "request"
  /\ status # 200 => content = <<>>
  /\ LET c == IF status = 200 THEN OnResponse(call, content)
                               ELSE OnError(call, status)
         newCacheEntries == SelectSeq(ObjectEntries(c.result),
                              LAMBDA e : OrElse(e.natural_name, Null) # Null)
     IN IF c.pc # "returned"
          THEN /\ saved
               /\ call' = c
               /\ UNCHANGED <<run, cache>>
          ELSE /\ call' = NoCall
               /\ newCacheEntries = <<>> => saved
               /\ cache' = IF saved THEN saveToCache(cache, newCacheEntries)
                                    ELSE cache
               /\ run' = IF saved
                           THEN [run EXCEPT
                                   !.pc = "assign",
                                   !.naturalNames = c.result,
                                   !.cacheEntries = newCacheEntries,
                                   !.naturalizedMap =
                                      PutAll(run.naturalizedMap,
                                             ObjectEntries(c.result)),
                                   !.stats.api_calls = Len(run.uncachedNames)]
                           ELSE [run EXCEPT !.pc = "failed",
                                            !.naturalNames = c.result,
                                            !.cacheEntries = newCacheEntries,
                                            !.stats.errors = 1]
  /\ UNCHANGED <<config, conc, uniq, records, hist>>

\* lines 191-223: every fetched record whose name reads a truthy value in
\* cachedNames is updated, the updates of the rows in failed throwing; then
\* the stats are returned
PriorityUpdate(failed) ==
  /\ run.pc = "assign"
  /\ LET named == {k \in 1..Len(run.records) :
                     OrElse(Get(run.naturalizedMap, run.records[k].google_name),
                            Null) # Null}
         ids == {run.records[k].place_id : k \in named}
     IN /\ failed \subseteq ids
        /\ records' =
             [p \in DOMAIN records |->
                IF p \in ids \ failed
                  THEN [records[p] EXCEPT
                          !.natural_name = run.naturalizedMap[records[p].google_name]]
                  ELSE records[p]]
        /\ run' = [run EXCEPT
                     !.pc = "done",
                     !.stats.naturalized = Cardinality(ids \ failed),
                     !.stats.errors = Cardinality(failed),
                     !.stats.processed = Len(run.records)]
  /\ UNCHANGED <<config, conc, uniq, call, cache, hist>>

\* the rows pending in recs whose display name has an entry in the cache c
CachedPending(recs, c) ==
  {[place_id |-> p, natural_name |-> r.natural_name] :
     <<p, r>> \in {<<q, e>> \in (DOMAIN recs) \X c :
                     /\ recs[q].natural_name = Null
                     /\ e.original_name = recs[q].google_name}}

\* the process is killed, once, during a run of processBatch: its locals and
\* its pending request are lost, the two tables keep what was written
Crash ==
  /\ run.pc \notin {"idle", "done", "failed"}
  /\ hist.crash.at = 0
  /\ run' = IdleRun
  /\ call' = NoCall
  /\ hist' = [hist EXCEPT !.crash = [at |-> hist.runNo,
                                     rows |-> CachedPending(records, cache)]]
  /\ UNCHANGED <<config, conc, uniq, records, cache>>

----------------------------------------------------------------------------
(* processConcurrently(options) *)

ConcStats == [processed |-> 0, naturalized |-> 0, from_cache |-> 0,
              api_calls |-> 0, errors |-> 0, status |-> "none"]

\* one entry of processPromises: the function handed to concurrencyLimit for
\* a name, with the activation of naturalizeNames of its current attempt
NewTask(name) ==
  [pc |-> "queued", name |-> name, attempt |-> 0, call |-> NoCall]

IdleConc == [pc |-> "idle", limit |-> 0, records |-> <<>>, uniqueNames |-> <<>>,
             uncachedNames |-> <<>>, naturalizedMap |-> EmptyMap,
             tasks |-> <<>>, updates |-> <<>>, settled |-> <<>>,
             stats |-> ConcStats, error |-> "none"]

\* a property name every JavaScript object inherits from Object.prototype
ProtoName == <<"c", "o", "n", "s", "t", "r", "u", "c", "t", "o", "r">>

\* lines 237-243: nameToRecords = {}, then for every record the list under
\* its google_name is created when the name reads falsy, and the record is
\* pushed. Under an inherited name the object reads a function, no list is
\* created and push is not a function: the loop throws a TypeError
nameToRecords(recs) ==
  IF \E k \in 1..Len(recs) : recs[k].google_name = ProtoName
    THEN [threw |-> TRUE, map |-> EmptyMap]
    ELSE [threw |-> FALSE,
          map |-> [n \in {recs[k].google_name : k \in 1..Len(recs)} |->
                     SelectSeq(recs, LAMBDA r : r.google_name = n)]]

\* lines 209-227: stats initialised, the limit taken from options
ConcStart(limit) ==
  /\ conc.pc = "idle"
  /\ conc' = [IdleConc EXCEPT !.pc = "fetch", !.limit = limit]
  /\ UNCHANGED <<config, uniq, call, records, cache, run, hist>>

\* lines 313-331: one update per record of every name with a natural name
ConcUpdates(recs, uniqueNames, naturalizedMap) ==
  LET named == SelectSeq(uniqueNames,
                 LAMBDA n : OrElse(Get(naturalizedMap, n), Null) # Null)
      of(n) == SelectSeq(recs, LAMBDA r : r.google_name = n)
      F[i \in 0..Len(named)] ==
        IF i = 0 THEN <<>>
        ELSE F[i - 1] \o
             [k \in 1..Len(of(named[i])) |->
                [place_id |-> of(named[i])[k].place_id,
                 natural_name |-> Get(naturalizedMap, named[i])]]
  IN F[Len(named)]

\* lines 306-333: Promise.all(processPromises) has resolved; the updates are
\* built and all dispatched; the locals of the tasks are dead
EnterConcUpdate(c) ==
  LET updates == ConcUpdates(c.records, c.uniqueNames, c.naturalizedMap) IN
  [IdleConc EXCEPT !.pc = IF updates = <<>> THEN "finish" ELSE "update",
                   !.records = c.records,
                   !.updates = updates,
                   !.settled = [k \in 1..Len(updates) |-> "pending"],
                   !.stats = c.stats]

\* lines 227-246, 357-361: the fetch answered with the rows S; they are
\* grouped by name, uniqueNames being the keys in the order of insertion
ConcFetchOk(S) ==
  /\ conc.pc = "fetch"
  /\ S \in FetchAnswers(records, conc.limit)
  /\ LET recs == getRecordsToProcess(records, S) IN
       conc' = IF Len(recs) = 0
                 THEN [conc EXCEPT !.pc = "done", !.limit = 0]
               ELSE IF nameToRecords(recs).threw
                 THEN [conc EXCEPT !.pc = "failed", !.limit = 0,
                                   !.stats.status = "error",
                                   !.error = "TypeError"]
                 ELSE [conc EXCEPT
                         !.pc = "lookup",
                         !.limit = 0,
                         !.records = recs,
                         !.uniqueNames =
                            Unique([k \in 1..Len(recs) |-> recs[k].google_name])]
  /\ UNCHANGED <<config, uniq, call, records, cache, run, hist>>

\* lines 227, 357-361: the fetch throws; the catch rethrows
ConcFetchFail ==
  /\ conc.pc = "fetch"
  /\ conc' = [conc EXCEPT !.pc = "failed", !.limit = 0,
                          !.stats.status = "error", !.error = "fetch"]
  /\ UNCHANGED <<config, uniq, call, records, cache, run, hist>>

\* lines 249-259: the cache lookup answered with the map cachedNames; one
\* task per uncached name is handed to the gate
ConcLooked(cachedNames) ==
  LET uncached == Uncached(conc.uniqueNames, cachedNames)
      c == [conc EXCEPT !.uncachedNames = uncached,
                        !.naturalizedMap = cachedNames,
                        !.tasks = [t \in 1..Len(uncached) |-> NewTask(uncached[t])],
                        !.stats.from_cache = Cardinality(DOMAIN cachedNames)]
  IN conc' = IF Len(uncached) > 0 THEN [c EXCEPT !.pc = "tasks"]
                                  ELSE EnterConcUpdate(c)

ConcLookupOk ==
  /\ conc.pc = "lookup"
  /\ ConcLooked(getCachedNaturalNames(cache, conc.uniqueNames))
  /\ UNCHANGED <<config, uniq, call, records, cache, run, hist>>

ConcLookupFail ==
  /\ conc.pc = "lookup"
  /\ ConcLooked(EmptyMap)
  /\ UNCHANGED <<config, uniq, call, records, cache, run, hist>>

\* the tasks the gate has let in and that have not returned
ActiveTasks(c) ==
  {t \in 1..Len(c.tasks) : c.tasks[t].pc \in {"calling", "saving", "backoff"}}

QueuedTasks(c) == {t \in 1..Len(c.tasks) : c.tasks[t].pc = "queued"}

\* p-limit: the oldest queued task starts when fewer than CONCURRENCY run;
\* lines 261-266: its first attempt calls naturalizeNames([name])
ConcAdmit ==
  /\ conc.pc = "tasks"
  /\ QueuedTasks(conc) # {}
  /\ Cardinality(ActiveTasks(conc)) < CONCURRENCY
  /\ LET t == Min(QueuedTasks(conc)) IN
       conc' = [conc EXCEPT !.tasks[t].pc = "calling",
                            !.tasks[t].attempt = 1,
                            !.tasks[t].call = NewCall(<<conc.tasks[t].name>>)]
  /\ UNCHANGED <<config, uniq, call, records, cache, run, hist>>

\* a task has returned: when it was the last, Promise.all resolves
TaskDone(c, t) ==
  LET d == [c EXCEPT !.tasks[t].pc = "done", !.tasks[t].call = NoCall] IN
  IF \A u \in 1..Len(d.tasks) : d.tasks[u].pc = "done"
    THEN EnterConcUpdate(d) ELSE d

\* the call of line 266 proceeds to cl: it goes on retrying, or it returns
\* and lines 267-273 map the result and call saveToCache
TaskProceed(t, cl) ==
  IF cl.pc = "returned"
    THEN conc' = [conc EXCEPT
                    !.tasks[t].pc = "saving",
                    !.tasks[t].call = NoCall,
                    !.naturalizedMap =
                       Put(conc.naturalizedMap, conc.tasks[t].name,
                           OrElse(At(cl.result, 0), conc.tasks[t].name)),
                    !.stats.api_calls = conc.stats.api_calls + 1]
    ELSE conc' = [conc EXCEPT !.tasks[t].call = cl]

\* openrouter.js lines 48-97: the request of task t is answered with content
TaskRespond(t, content) ==
  /\ conc.pc = "tasks"
  /\ t \in 1..Len(conc.tasks)
  /\ conc.tasks[t].call.pc = "request"
  /\ TaskProceed(t, OnResponse(conc.tasks[t].call, content))
  /\ UNCHANGED <<config, uniq, call, records, cache, run, hist>>

\* openrouter.js lines 99-115: the request of task t fails with status
TaskFail(t, status) ==
  /\ conc.pc = "tasks"
  /\ t \in 1..Len(conc.tasks)
  /\ conc.tasks[t].call.pc = "request"
  /\ TaskProceed(t, OnError(conc.tasks[t].call, status))
  /\ hist' = [hist EXCEPT !.quota = (hist.quota \/ status = 402)]
  /\ UNCHANGED <<config, uniq, call, records, cache, run>>

\* openrouter.js lines 108-109: the retry delay of task t's call has passed
TaskWake(t) ==
  /\ conc.pc = "tasks"
  /\ t \in 1..Len(conc.tasks)
  /\ conc.tasks[t].call.pc = "sleeping"
  /\ conc' = [conc EXCEPT !.tasks[t].call = OnWake(conc.tasks[t].call)]
  /\ UNCHANGED <<config, uniq, call, records, cache, run, hist>>

\* lines 273-281: saveToCache succeeded; the task returns naturalName
TaskSaveOk(t) ==
  /\ conc.pc = "tasks"
  /\ t \in 1..Len(conc.tasks)
  /\ conc.tasks[t].pc = "saving"
  /\ cache' = saveToCache(cache,
                <<[original_name |-> conc.tasks[t].name,
                   natural_name |-> Get(conc.naturalizedMap, conc.tasks[t].name)]>>)
  /\ conc' = TaskDone([conc EXCEPT !.stats.naturalized =
                                      conc.stats.naturalized + 1], t)
  /\ UNCHANGED <<config, uniq, call, records, run, hist>>

\* lines 282-299: saveToCache threw (an error without response): the last
\* attempt falls back to the name itself, an earlier one waits RETRY_DELAY
TaskSaveFail(t) ==
  /\ conc.pc = "tasks"
  /\ t \in 1..Len(conc.tasks)
  /\ conc.tasks[t].pc = "saving"
  /\ conc' = IF conc.tasks[t].attempt = CONC_MAX_RETRIES
               THEN TaskDone([conc EXCEPT
                                !.stats.errors = conc.stats.errors + 1,
                                !.naturalizedMap =
                                   Put(conc.naturalizedMap, conc.tasks[t].name,
                                       conc.tasks[t].name)], t)
               ELSE [conc EXCEPT !.tasks[t].pc = "backoff"]
  /\ UNCHANGED <<config, uniq, call, records, cache, run, hist>>

\* lines 261-266, 298: the delay has passed; the next attempt of task t
TaskRetry(t) ==
  /\ conc.pc = "tasks"
  /\ t \in 1..Len(conc.tasks)
  /\ conc.tasks[t].pc = "backoff"
  /\ conc' = [conc EXCEPT !.tasks[t].pc = "calling",
                          !.tasks[t].attempt = conc.tasks[t].attempt + 1,
                          !.tasks[t].call = NewCall(<<conc.tasks[t].name>>)]
  /\ UNCHANGED <<config, uniq, call, records, cache, run, hist>>

\* an update has settled: when it was the last, Promise.all resolves
ConcSettle(c, k, outcome) ==
  LET d == [c EXCEPT !.settled[k] = outcome] IN
  IF \E j \in 1..Len(d.settled) : d.settled[j] = "pending"
    THEN d ELSE [d EXCEPT !.pc = "finish"]

\* lines 318-322: updateNaturalName of updates[k] succeeded
ConcUpdateOk(k) ==
  /\ conc.pc = "update"
  /\ k \in 1..Len(conc.updates)
  /\ conc.settled[k] = "pending"
  /\ records' = updateNaturalName(records, conc.updates[k].place_id,
                                  conc.updates[k].natural_name)
  /\ conc' = ConcSettle([conc EXCEPT !.stats.processed =
                                        conc.stats.processed + 1], k, "ok")
  /\ UNCHANGED <<config, uniq, call, cache, run, hist>>

\* lines 323-327: updateNaturalName of updates[k] threw
ConcUpdateFail(k) ==
  /\ conc.pc = "update"
  /\ k \in 1..Len(conc.updates)
  /\ conc.settled[k] = "pending"
  /\ conc' = ConcSettle([conc EXCEPT !.stats.errors =
                                        conc.stats.errors + 1], k, "failed")
  /\ UNCHANGED <<config, uniq, call, records, cache, run, hist>>

\* lines 335-355: the stats are completed and returned
ConcFinish ==
  /\ conc.pc = "finish"
  /\ conc' = [conc EXCEPT !.pc = "done", !.stats.status = "returned"]
  /\ UNCHANGED <<config, uniq, call, records, cache, run, hist>>

----------------------------------------------------------------------------
(* continuousProcessing(options): the loop keeps its position in uniq *)

\* lines 379-389: the loop test; the next iteration calls processConcurrently
\* with the limit of the options, or maxIterations is reached and the loop ends
ContIterate ==
  /\ uniq.pc = "loop"
  /\ conc.pc = "idle"
  /\ IF uniq.iteration < uniq.maxIterations
       THEN /\ uniq' = [uniq EXCEPT !.pc = "running",
                                    !.iteration = uniq.iteration + 1]
            /\ conc' = [IdleConc EXCEPT !.pc = "fetch", !.limit = uniq.limit]
       ELSE /\ uniq' = [uniq EXCEPT !.pc = "done"]
            /\ UNCHANGED conc
  /\ UNCHANGED <<config, call, records, cache, run, hist>>

\* lines 391-416: processConcurrently has returned its stats, or thrown. The
\* loop ends when nothing was processed, when no record is pending (the
\* count of getProcessingStats, null when its query failed: counted = FALSE)
\* or when the error carries the status 402; else it goes on after a delay
ContResult(counted) ==
  /\ uniq.pc = "running"
  /\ conc.pc \in {"done", "failed"}
  /\ conc' = IdleConc
  /\ uniq' =
       IF conc.pc = "done"
         THEN [uniq EXCEPT
                 !.totalProcessed = uniq.totalProcessed + conc.stats.processed,
                 !.pc = IF \/ conc.stats.processed = 0
                           \/ counted /\ Cardinality(Pending(records)) = 0
                          THEN "done" ELSE "loop"]
         ELSE [uniq EXCEPT !.pc = IF conc.error = "status402" THEN "done"
                                                              ELSE "loop"]
  /\ UNCHANGED <<config, call, records, cache, run, hist>>

----------------------------------------------------------------------------
(* NaturalizationProcessor.processUniqueNames(category, limit) *)

\* this.batchSize, set to 30 by the constructor; scaled to the table sizes
batchSize == config.batchSize

IdleUniq == [pc |-> "idle", limit |-> 0, uniqueNames |-> <<>>, i |-> 0,
             batch |-> <<>>, uncachedNames |-> <<>>, naturalizedMap |-> EmptyMap,
             totalProcessed |-> 0, totalRecordsUpdated |-> 0, totalCached |-> 0,
             result |-> [success |-> FALSE, code |-> "none"]]

\* lines 12-26: the query for the pending names is sent
UniqStart(limit) ==
  /\ uniq.pc \in {"idle", "done", "failed"}
  /\ hist.runNo < MaxRuns
  /\ uniq' = [IdleUniq EXCEPT !.pc = "fetch", !.limit = limit]
  /\ hist' = [hist EXCEPT !.runNo = hist.runNo + 1]
  /\ UNCHANGED <<config, conc, call, records, cache, run>>

\* lines 42, 125-146: the next batch is taken, or the loop has ended and the
\* counters are returned
UniqNextBatch(u) ==
  IF u.i < Len(u.uniqueNames)
    THEN [u EXCEPT !.pc = "lookup",
                   !.batch = Slice(u.uniqueNames, u.i, u.i + batchSize),
                   !.uncachedNames = <<>>,
                   !.naturalizedMap = EmptyMap]
    ELSE [u EXCEPT !.pc = "done",
                   !.batch = <<>>, !.uncachedNames = <<>>,
                   !.naturalizedMap = EmptyMap,
                   !.result = [success |-> TRUE,
                               processed |-> u.totalProcessed,
                               records_updated |-> u.totalRecordsUpdated,
                               cached |-> u.totalCached]]

\* lines 26-42: the query answered with the rows S; the first limit unique
\* names are kept
UniqFetchOk(S) ==
  /\ uniq.pc = "fetch"
  /\ S \in FetchAnswers(records, uniq.limit * 2)
  /\ LET recs == getRecordsToProcess(records, S)
         names == Unique([k \in 1..Len(recs) |-> recs[k].google_name])
     IN uniq' = UniqNextBatch([uniq EXCEPT
                                 !.uniqueNames = Slice(names, 0, uniq.limit)])
  /\ UNCHANGED <<config, conc, call, records, cache, run, hist>>

\* lines 28, 148-159: the query failed; the error is thrown to the caller
UniqFetchFail ==
  /\ uniq.pc = "fetch"
  /\ uniq' = [uniq EXCEPT !.pc = "failed",
                          !.result = [success |-> FALSE, code |-> "thrown"]]
  /\ UNCHANGED <<config, conc, call, records, cache, run, hist>>

\* lines 45-62: the cache answered the batch, with the rows it holds or,
\* answered = FALSE, with an error that is ignored; without uncached names
\* the call is skipped
UniqLookup(answered) ==
  /\ uniq.pc = "lookup"
  /\ LET cachedMap == IF answered THEN getCachedNaturalNames(cache, uniq.batch)
                                  ELSE EmptyMap
         uncached == Uncached(uniq.batch, cachedMap)
     IN uniq' = [uniq EXCEPT
                   !.pc = IF Len(uncached) > 0 THEN "ai" ELSE "update",
                   !.uncachedNames = uncached,
                   !.naturalizedMap = cachedMap,
                   !.totalCached = uniq.totalCached + Cardinality(DOMAIN cachedMap)]
  /\ UNCHANGED <<config, conc, call, records, cache, run, hist>>

\* ai.js lines 51-73: the objects naturalizeWithAI can return for names: a
\* natural name or an empty string for any of them
AiResults(names) ==
  UNION {[D -> {<<"x">>, <<>>}] : D \in SUBSET {names[j] : j \in 1..Len(names)}}

\* lines 69-79: the entries with a natural name, in the order of the names
AiEntries(names, aiResults) ==
  LET kept == SelectSeq(names, LAMBDA n : OrElse(Get(aiResults, n), Null) # Null)
  IN [j \in 1..Len(kept) |->
        [original_name |-> kept[j], natural_name |-> aiResults[kept[j]]]]

\* lines 66-89: naturalizeWithAI returned aiResults; the entries are mapped
\* and upserted into the cache, a failure of the upsert being only logged
UniqAiOk(aiResults, saved) ==
  /\ uniq.pc = "ai"
  /\ aiResults \in AiResults(uniq.uncachedNames)
  /\ LET cacheEntries == AiEntries(uniq.uncachedNames, aiResults) IN
       /\ saved = FALSE => cacheEntries # <<>>
       /\ uniq' = [uniq EXCEPT !.pc = "update",
                               !.naturalizedMap =
                                  PutAll(uniq.naturalizedMap, cacheEntries)]
       /\ cache' = IF saved THEN saveToCache(cache, cacheEntries) ELSE cache
  /\ UNCHANGED <<config, conc, call, records, run, hist>>

\* the rows of the names from position i on that are pending
Unfinished(u, recs) ==
  {p \in Pending(recs) :
     \E j \in (u.i + 1)..Len(u.uniqueNames) : u.uniqueNames[j] = recs[p].google_name}

\* a fatal path that first writes the names the batch found in the cache
OnCreditsExhaustedWriting(recs, m) ==
  [p \in DOMAIN recs |->
     IF recs[p].natural_name = Null /\ OrElse(Get(m, recs[p].google_name), Null) # Null
       THEN [recs[p] EXCEPT !.natural_name = m[recs[p].google_name]]
       ELSE recs[p]]

\* lines 90-93: the throw leaves the loop before the updates of the batch
OnCreditsExhausted(recs, m) == recs

\* lines 90-96, 148-157, ai.js 74-81: naturalizeWithAI threw. On status 402
\* the run ends and answers {success: false, error, code}; on any other
\* failure the batch goes on with the names from the cache
UniqAiFail(status) ==
  /\ uniq.pc = "ai"
  /\ IF status = 402
       THEN /\ uniq' = [uniq EXCEPT
                          !.pc = "failed",
                          !.result = [success |-> FALSE,
                                      code |-> "CREDITS_EXHAUSTED"]]
            /\ records' = OnCreditsExhausted(records, uniq.naturalizedMap)
            /\ hist' = [hist EXCEPT
                          !.unres = [at |-> hist.runNo,
                                     rows |-> Unfinished(uniq, records)]]
       ELSE /\ uniq' = [uniq EXCEPT !.pc = "update"]
            /\ UNCHANGED <<records, hist>>
  /\ UNCHANGED <<config, conc, call, cache, run>>

\* update({natural_name}).eq('google_name', originalName).is('natural_name',
\* null) for every name of m outside failed, the statements succeeding
UpdateByName(recs, m, failed) ==
  [p \in DOMAIN recs |->
     IF /\ recs[p].natural_name = Null
        /\ recs[p].google_name \notin failed
        /\ OrElse(Get(m, recs[p].google_name), Null) # Null
       THEN [recs[p] EXCEPT !.natural_name = m[recs[p].google_name]]
       ELSE recs[p]]

\* lines 99-123: every name of the batch with a natural name is written to
\* all its pending rows; the updates of the names in failed fail and are
\* ignored; then the loop goes on
UniqUpdate(failed) ==
  /\ uniq.pc = "update"
  /\ failed \subseteq DOMAIN uniq.naturalizedMap
  /\ records' = UpdateByName(records, uniq.naturalizedMap, failed)
  /\ uniq' = UniqNextBatch(
               [uniq EXCEPT
                  !.i = uniq.i + batchSize,
                  !.totalProcessed = uniq.totalProcessed + Len(uniq.batch),
                  !.totalRecordsUpdated =
                     uniq.totalRecordsUpdated +
                     Cardinality({p \in DOMAIN records : records'[p] # records[p]})])
  /\ UNCHANGED <<config, conc, call, cache, run, hist>>

----------------------------------------------------------------------------
(* The cache lookups made chunk by chunk:                                   *)
(*   getUncachedRecordsByCategories (src/src/db/queries_optimized.js)       *)
(*   forceUpdateBoutiques           (src/force-update-boutiques.js)         *)
(* One invocation keeps its position in the variable uniq; the chunk sizes  *)
(* 500 and 50 are scaled to config.lookupChunk.                             *)

IdleChunked == [pc |-> "idle", fn |-> "none", limit |-> 0, records |-> <<>>,
                uniqueNames |-> <<>>, i |-> 0, merged |-> EmptyMap,
                failed |-> {}, failures |-> 0, result |-> <<>>]

\* the first query of either function, answered with the rows S or with an
\* error: getUncachedRecordsByCategories throws it (line 21) and returns []
\* without rows (22-25); forceUpdateBoutiques returns (27-30)
ChunkedFetch(fn, limit, S, ok) ==
  /\ uniq.pc = "idle"
  /\ S \subseteq (IF fn = "forceUpdateBoutiques" THEN PendingUnfiltered(records)
                                                  ELSE Pending(records))
  /\ ~ok => S = {}
  /\ LET recs == getRecordsToProcess(records, S)
         names == Unique([k \in 1..Len(recs) |-> recs[k].google_name])
         u == [IdleChunked EXCEPT !.fn = fn, !.limit = limit]
     IN uniq' =
          IF ~ok
            THEN [u EXCEPT !.pc = IF fn = "forceUpdateBoutiques"
                                    THEN "done" ELSE "threw"]
          ELSE IF fn # "forceUpdateBoutiques" /\ S = {}
            THEN [u EXCEPT !.pc = "done"]
          ELSE [u EXCEPT !.pc = "lookup", !.records = recs,
                         !.uniqueNames = names]
  /\ UNCHANGED <<config, conc, call, records, cache, run, hist>>

\* one turn of the loop over the chunks (queries_optimized.js 36-45,
\* force-update-boutiques.js 39-56): the rows found are merged into the
\* result; on an error getUncachedRecordsByCategories throws, and what it
\* had gathered is lost with it, while forceUpdateBoutiques goes on to the
\* next chunk. failed and failures record the chunks whose query failed.
ChunkedLookup(answered) ==
  /\ uniq.pc = "lookup"
  /\ uniq.i < Len(uniq.uniqueNames)
  /\ LET chunk == Slice(uniq.uniqueNames, uniq.i, uniq.i + config.lookupChunk)
         found == getCachedNaturalNames(cache, chunk)
         names == {chunk[j] : j \in 1..Len(chunk)}
     IN uniq' =
          IF answered
            THEN [uniq EXCEPT
                    !.i = uniq.i + config.lookupChunk,
                    !.merged = [k \in DOMAIN uniq.merged \cup DOMAIN found |->
                                  IF k \in DOMAIN found THEN found[k]
                                                        ELSE uniq.merged[k]]]
          ELSE IF uniq.fn = "forceUpdateBoutiques"
            THEN [uniq EXCEPT !.i = uniq.i + config.lookupChunk,
                              !.failed = uniq.failed \cup names,
                              !.failures = uniq.failures + 1]
          ELSE [uniq EXCEPT !.pc = "threw", !.merged = EmptyMap,
                            !.failed = uniq.failed \cup names,
                            !.failures = uniq.failures + 1]
  /\ UNCHANGED <<config, conc, call, records, cache, run, hist>>

\* after the loop. forceUpdateBoutiques (61-92) writes cacheMap[name] to
\* every fetched row whose name has a different mapping, the updates of the
\* rows in S failing unnoticed. getUncachedRecordsByCategories (47-83)
\* takes the first limit uncached names, or of all names when none is
\* uncached, and returns the pending rows S the last query answers, or
\* throws its error.
ChunkedFinish(S, ok) ==
  /\ uniq.pc = "lookup"
  /\ uniq.i >= Len(uniq.uniqueNames)
  /\ IF uniq.fn = "forceUpdateBoutiques"
       THEN /\ ok
            /\ S \subseteq {uniq.records[k].place_id : k \in 1..Len(uniq.records)}
            /\ records' =
                 [p \in DOMAIN records |->
                    LET naturalName == OrElse(Get(uniq.merged, records[p].google_name),
                                              records[p].google_name)
                    IN IF /\ \E k \in 1..Len(uniq.records) :
                                uniq.records[k].place_id = p
                          /\ p \notin S
                          /\ naturalName # records[p].google_name
                         THEN [records[p] EXCEPT !.natural_name = naturalName]
                         ELSE records[p]]
            /\ uniq' = [uniq EXCEPT !.pc = "done"]
       ELSE LET uncachedNames == Uncached(uniq.uniqueNames, uniq.merged)
                namesToProcess ==
                  Slice(IF Len(uncachedNames) = 0 THEN uniq.uniqueNames
                                                  ELSE uncachedNames,
                        0, uniq.limit)
                rows == {p \in Pending(records) :
                           \E j \in 1..Len(namesToProcess) :
                             namesToProcess[j] = records[p].google_name}
                n == IF Cardinality(rows) < uniq.limit THEN Cardinality(rows)
                                                       ELSE uniq.limit
            IN /\ IF ok THEN S \subseteq rows /\ Cardinality(S) = n ELSE S = {}
               /\ uniq' = IF ok
                            THEN [uniq EXCEPT !.pc = "done",
                                              !.result = getRecordsToProcess(records, S)]
                            ELSE [uniq EXCEPT !.pc = "threw", !.merged = EmptyMap]
               /\ UNCHANGED records
  /\ UNCHANGED <<config, conc, call, cache, run, hist>>

----------------------------------------------------------------------------
(* processTriggeredRecords() and checkIfNaturalizationNeeded(), called by   *)
(* the 5-minute cron job and by POST /process-triggered. The trigger rows   *)
(* of process_log, the position of each caller and the runs started are    *)
(* kept in uniq; a started run is processBatch, modelled above, and is      *)
(* recorded by the trigger row its check had read.                          *)

\* part_005 lines 66-95: an insert into outbound_email_targets logs the
\* pending trigger row t
TriggerInsert(t) ==
  /\ uniq.triggers[t] = "none"
  /\ \A u \in DOMAIN uniq.triggers : u < t => uniq.triggers[u] # "none"
  /\ uniq' = [uniq EXCEPT !.triggers[t] = "pending"]
  /\ UNCHANGED <<config, conc, call, records, cache, run, hist>>

\* queries.js lines 569-581, part_006 lines 166-178: the caller c asks for
\* the latest pending trigger row. An error other than 'no row' is thrown;
\* without a row the check returns false and no run is started
CheckSelect(c, ok) ==
  /\ uniq.checks[c].pc = "idle"
  /\ uniq.checked < MaxRuns + 1
  /\ LET pending == {t \in DOMAIN uniq.triggers : uniq.triggers[t] = "pending"}
         data == IF pending = {} THEN 0 ELSE CHOOSE t \in pending :
                                               \A u \in pending : u <= t
     IN uniq' = [uniq EXCEPT
                   !.checked = uniq.checked + 1,
                   !.checks[c] = IF ok /\ data # 0
                                   THEN [pc |-> "selected", data |-> data]
                                   ELSE [pc |-> "idle", data |-> 0]]
  /\ UNCHANGED <<config, conc, call, records, cache, run, hist>>

\* queries.js lines 583-592, part_006 lines 172-174: the caller c, having
\* read a row, sets every pending row to 'processing', the result of the
\* statement not being looked at (ok = FALSE: it failed), and returns true:
\* processBatch is started
CheckMark(c, ok) ==
  /\ uniq.checks[c].pc = "selected"
  /\ uniq' = [uniq EXCEPT
                !.triggers = IF ok
                               THEN [t \in DOMAIN uniq.triggers |->
                                       IF uniq.triggers[t] = "pending"
                                         THEN "processing" ELSE uniq.triggers[t]]
                               ELSE uniq.triggers,
                !.checks[c] = [pc |-> "idle", data |-> 0],
                !.started = Append(uniq.started, uniq.checks[c].data)]
  /\ UNCHANGED <<config, conc, call, records, cache, run, hist>>

----------------------------------------------------------------------------
(* The specifications *)

\* every row pending; the display names introduced in the order A, B, C
InitialNames ==
  {f \in [PlaceIds -> Names] :
     /\ f[1] = NameA
     /\ \A p \in PlaceIds :
          /\ f[p] = NameB => \E q \in 1..(p - 1) : f[q] = NameA
          /\ f[p] = NameC => \E q \in 1..(p - 1) : f[q] = NameB}

Init ==
  /\ call = NoCall
  /\ \E f \in InitialNames :
       records = [p \in PlaceIds |-> [google_name |-> f[p], natural_name |-> Null]]
  /\ cache = {}
  /\ run = IdleRun
  /\ config \in [BATCH_SIZE : 1..MaxBatchSize, CONCURRENCY : {1},
                batchSize : {1}, chunkSize : {100}]
  /\ conc = IdleConc
  /\ uniq = IdleUniq
  /\ hist = NewHist

Next ==
  \/ \E limit \in 1..MaxRecords : Start(limit)
  \/ \E S \in SUBSET PlaceIds : FetchOk(S)
  \/ FetchFail
  \/ LookupOk
  \/ LookupFail
  \/ Dispatch
  \/ \E content \in Contents : BatchRespond(content)
  \/ \E status \in ErrorStatus : BatchFail(status)
  \/ NatWake
  \/ SaveOk
  \/ SaveFail
  \/ Paced
  \/ \E k \in PlaceIds : UpdateOk(k)
  \/ \E k \in PlaceIds : UpdateFail(k)
  \/ Finish

Spec == Init /\ [][Next]_vars

\* naturalizeNames alone, on any list of names and any upstream behaviour
AllContents == UNION {[1..n -> Chars] : n \in 0..MaxContentLen}

\* the name lists a, ab, abc, abca, ...
NameList == <<NameA, NameB, NameC>>

NatInputs ==
  {[i \in 1..n |-> NameList[((i - 1) % Len(NameList)) + 1]] : n \in 1..MaxBatch}

InitNat ==
  /\ \E businessNames \in NatInputs : call = NewCall(businessNames)
  /\ records = [p \in PlaceIds |-> [google_name |-> NameA, natural_name |-> Null]]
  /\ cache = {}
  /\ run = IdleRun
  /\ config = [BATCH_SIZE |-> MaxBatch, CONCURRENCY |-> 1, batchSize |-> 1, chunkSize |-> 100]
  /\ conc = IdleConc
  /\ uniq = IdleUniq
  /\ hist = NewHist

NextNat ==
  \/ \E content \in AllContents : NatRespond(content)
  \/ \E status \in ErrorStatus : NatFail(status)
  \/ NatWake

SpecNat == InitNat /\ [][NextNat]_vars

\* naturalizeNames with the scheduling the code has: the timer of a retry
\* delay fires (lines 108-109). axios.post is given no timeout option
\* (lines 48-70), so nothing obliges a pending request to end
SpecNatFair == SpecNat /\ WF_vars(NatWake)

\* a cache left by earlier runs: empty, or holding the first name
EarlierCaches ==
  { {}, {[original_name |-> NameA, natural_name |-> <<"y">>, usage_count |-> 1]} }

\* processConcurrently, run once
InitConc ==
  /\ call = NoCall
  /\ \E f \in InitialNames :
       records = [p \in PlaceIds |-> [google_name |-> f[p], natural_name |-> Null]]
  /\ cache \in EarlierCaches
  /\ run = IdleRun
  /\ config \in [BATCH_SIZE : {1}, CONCURRENCY : 1..MaxConcurrency,
                batchSize : {1}, chunkSize : {1}]
  /\ conc = IdleConc
  /\ uniq = IdleUniq
  /\ hist = NewHist

NextConc ==
  \/ \E limit \in 1..MaxRecords : ConcStart(limit)
  \/ \E S \in SUBSET PlaceIds : ConcFetchOk(S)
  \/ ConcFetchFail
  \/ ConcLookupOk
  \/ ConcLookupFail
  \/ ConcAdmit
  \/ \E t \in 1..MaxRecords, content \in Contents : TaskRespond(t, content)
  \/ \E t \in 1..MaxRecords, status \in ErrorStatus : TaskFail(t, status)
  \/ \E t \in 1..MaxRecords : TaskWake(t)
  \/ \E t \in 1..MaxRecords : TaskSaveOk(t)
  \/ \E t \in 1..MaxRecords : TaskSaveFail(t)
  \/ \E t \in 1..MaxRecords : TaskRetry(t)
  \/ \E k \in 1..MaxRecords : ConcUpdateOk(k)
  \/ \E k \in 1..MaxRecords : ConcUpdateFail(k)
  \/ ConcFinish

SpecConc == InitConc /\ [][NextConc]_vars

\* a run of processBatch and a run of processConcurrently started by two
\* requests, overlapping in time; every call to the stores and to the
\* generation API succeeds
InitOverlap ==
  /\ call = NoCall
  /\ \E f \in InitialNames :
       records = [p \in PlaceIds |-> [google_name |-> f[p], natural_name |-> Null]]
  /\ cache \in EarlierCaches
  /\ run = IdleRun
  /\ config \in [BATCH_SIZE : 1..MaxBatchSize, CONCURRENCY : 1..MaxConcurrency,
                batchSize : {1}, chunkSize : {100}]
  /\ conc = IdleConc
  /\ uniq = IdleUniq
  /\ hist = NewHist

\* the one run of processBatch that overlaps the concurrent run
StartOnce(limit) == hist.runNo = 0 /\ Start(limit)

\* the responses of the generation API where only its answer to a name
\* matters: no line (the names come back unchanged) or the one line x
OverlapContents == { <<>>, <<"x">> }

\* both runs are asked for at least as many rows as are pending
NextOverlap ==
  \/ StartOnce(MaxRecords)
  \/ \E S \in SUBSET PlaceIds : FetchOk(S)
  \/ LookupOk
  \/ Dispatch
  \/ \E content \in OverlapContents : BatchRespond(content)
  \/ SaveOk
  \/ Paced
  \/ \E k \in 1..MaxRecords : UpdateOk(k)
  \/ Finish
  \/ ConcStart(MaxRecords)
  \/ \E S \in SUBSET PlaceIds : ConcFetchOk(S)
  \/ ConcLookupOk
  \/ ConcAdmit
  \/ \E t \in 1..MaxRecords, content \in OverlapContents : TaskRespond(t, content)
  \/ \E t \in 1..MaxRecords : TaskSaveOk(t)
  \/ \E k \in 1..MaxRecords : ConcUpdateOk(k)
  \/ ConcFinish

SpecOverlap == InitOverlap /\ [][NextOverlap]_vars

\* runs of processBatch of which one is killed; the two tables may fail, the
\* generation API answers every request
NextCrash ==
  \/ \E limit \in 1..MaxRecords : Start(limit)
  \/ \E S \in SUBSET PlaceIds : FetchOk(S)
  \/ FetchFail
  \/ LookupOk
  \/ LookupFail
  \/ Dispatch
  \/ \E content \in OverlapContents : BatchRespond(content)
  \/ SaveOk
  \/ SaveFail
  \/ Paced
  \/ \E k \in PlaceIds : UpdateOk(k)
  \/ \E k \in PlaceIds : UpdateFail(k)
  \/ Finish
  \/ Crash

SpecCrash == Init /\ [][NextCrash]_vars

\* processUniqueNames, run after run
InitUnique ==
  /\ call = NoCall
  /\ \E f \in InitialNames :
       records = [p \in PlaceIds |-> [google_name |-> f[p], natural_name |-> Null]]
  /\ cache \in EarlierCaches
  /\ run = IdleRun
  /\ config \in [BATCH_SIZE : {1}, CONCURRENCY : {1}, batchSize : 1..MaxBatchSize,
                chunkSize : {100}]
  /\ conc = IdleConc
  /\ uniq = IdleUniq
  /\ hist = NewHist

NextUnique ==
  \/ \E limit \in 1..MaxRecords : UniqStart(limit)
  \/ \E S \in SUBSET PlaceIds : UniqFetchOk(S)
  \/ UniqFetchFail
  \/ \E answered \in BOOLEAN : UniqLookup(answered)
  \/ \E aiResults \in AiResults(NameList), saved \in BOOLEAN :
       UniqAiOk(aiResults, saved)
  \/ \E status \in ErrorStatus : UniqAiFail(status)
  \/ \E failed \in SUBSET Names : UniqUpdate(failed)

SpecUnique == InitUnique /\ [][NextUnique]_vars

\* display names that are empty or hold only white space
BlankNames == { <<>>, <<" ">> }

\* processBatch on a table whose first row has a blank display name
InitBlank ==
  /\ call = NoCall
  /\ \E f \in [PlaceIds -> BlankNames \cup {NameA}] :
       /\ f[1] \in BlankNames
       /\ records = [p \in PlaceIds |-> [google_name |-> f[p], natural_name |-> Null]]
  /\ cache = {}
  /\ run = IdleRun
  /\ config \in [BATCH_SIZE : 1..MaxBatchSize, CONCURRENCY : {1},
                batchSize : {1}, chunkSize : {100}]
  /\ conc = IdleConc
  /\ uniq = IdleUniq
  /\ hist = NewHist

SpecBlank == InitBlank /\ [][Next]_vars

\* processConcurrently on a table whose names include an inherited
\* property name
InitDedup ==
  /\ call = NoCall
  /\ \E f \in [PlaceIds -> {NameA, NameB, ProtoName}] :
       records = [p \in PlaceIds |-> [google_name |-> f[p], natural_name |-> Null]]
  /\ cache = {}
  /\ run = IdleRun
  /\ config \in [BATCH_SIZE : {1}, CONCURRENCY : 1..MaxConcurrency,
                batchSize : {1}, chunkSize : {100}]
  /\ conc = IdleConc
  /\ uniq = IdleUniq
  /\ hist = NewHist

SpecDedup == InitDedup /\ [][NextConc]_vars

\* processConcurrently on a table whose first row has a blank display name
InitConcBlank ==
  /\ call = NoCall
  /\ \E f \in [PlaceIds -> BlankNames \cup {NameA}] :
       /\ f[1] \in BlankNames
       /\ records = [p \in PlaceIds |-> [google_name |-> f[p], natural_name |-> Null]]
  /\ cache = {}
  /\ run = IdleRun
  /\ config \in [BATCH_SIZE : {1}, CONCURRENCY : 1..MaxConcurrency,
                batchSize : {1}, chunkSize : {100}]
  /\ conc = IdleConc
  /\ uniq = IdleUniq
  /\ hist = NewHist

SpecConcBlank == InitConcBlank /\ [][NextConc]_vars

\* continuousProcessing called once, maxIterations scaled to the table
InitCont ==
  /\ call = NoCall
  /\ \E f \in InitialNames :
       records = [p \in PlaceIds |-> [google_name |-> f[p], natural_name |-> Null]]
  /\ cache = {}
  /\ run = IdleRun
  /\ config \in [BATCH_SIZE : {1}, CONCURRENCY : {1}, batchSize : {1},
                chunkSize : {100}]
  /\ conc = IdleConc
  /\ uniq \in [pc : {"loop"}, iteration : {0}, maxIterations : 1..MaxRuns,
               limit : 1..MaxRecords, totalProcessed : {0}]
  /\ hist = NewHist

NextCont ==
  \/ ContIterate
  \/ \E counted \in BOOLEAN : ContResult(counted)
  \/ \E S \in SUBSET PlaceIds : ConcFetchOk(S)
  \/ ConcFetchFail
  \/ ConcLookupOk
  \/ ConcLookupFail
  \/ ConcAdmit
  \/ \E t \in 1..MaxRecords, content \in OverlapContents : TaskRespond(t, content)
  \/ \E t \in 1..MaxRecords, status \in ErrorStatus : TaskFail(t, status)
  \/ \E t \in 1..MaxRecords : TaskWake(t)
  \/ \E t \in 1..MaxRecords : TaskSaveOk(t)
  \/ \E t \in 1..MaxRecords : TaskSaveFail(t)
  \/ \E t \in 1..MaxRecords : TaskRetry(t)
  \/ \E k \in 1..MaxRecords : ConcUpdateOk(k)
  \/ \E k \in 1..MaxRecords : ConcUpdateFail(k)
  \/ ConcFinish

SpecCont == InitCont /\ [][NextCont]_vars

\* one request to /process-urgent-leads
NextUrgent ==
  \/ \E limit \in 1..MaxRecords, S \in SUBSET PlaceIds, ok \in BOOLEAN :
       UrgentFetch(limit, S, ok)
  \/ \E answered \in BOOLEAN : UrgentLookup(answered)
  \/ \E status \in ErrorStatus \cup {200}, content \in Contents :
       UrgentAnswer(status, content)
  \/ NatWake
  \/ \E ok \in BOOLEAN : UrgentSave(ok)
  \/ \E k \in PlaceIds : UpdateOk(k)
  \/ \E k \in PlaceIds : UpdateFail(k)

SpecUrgent == Init /\ [][NextUrgent]_vars

\* one call of processPriorityCategories on a cache left by earlier runs
InitPriority ==
  /\ call = NoCall
  /\ \E f \in InitialNames :
       records = [p \in PlaceIds |-> [google_name |-> f[p], natural_name |-> Null]]
  /\ cache \in EarlierCaches
  /\ run = IdleRun
  /\ config \in [BATCH_SIZE : {1}, CONCURRENCY : {1}, batchSize : {1},
                chunkSize : {100}]
  /\ conc = IdleConc
  /\ uniq = IdleUniq
  /\ hist = NewHist

NextPriority ==
  \/ \E limit \in 1..MaxRecords, S \in SUBSET PlaceIds, ok \in BOOLEAN :
       PriorityFetch(limit, S, ok)
  \/ \E answered \in BOOLEAN : PriorityLookup(answered)
  \/ \E status \in ErrorStatus \cup {200}, content \in Contents,
        saved \in BOOLEAN : PriorityAnswer(status, content, saved)
  \/ NatWake
  \/ \E failed \in SUBSET PlaceIds : PriorityUpdate(failed)

SpecPriority == InitPriority /\ [][NextPriority]_vars

\* the two callers of processTriggeredRecords and the trigger rows
InitTrigger ==
  /\ call = NoCall
  /\ records = [p \in PlaceIds |-> [google_name |-> NameA, natural_name |-> Null]]
  /\ cache = {}
  /\ run = IdleRun
  /\ config \in [BATCH_SIZE : {1}, CONCURRENCY : {1}, batchSize : {1},
                chunkSize : {100}]
  /\ conc = IdleConc
  /\ uniq = [triggers |-> [t \in 1..MaxRuns |-> "none"],
             checks |-> [c \in {"cron", "endpoint"} |-> [pc |-> "idle", data |-> 0]],
             checked |-> 0,
             started |-> <<>>]
  /\ hist = NewHist

NextTrigger ==
  \/ \E t \in 1..MaxRuns : TriggerInsert(t)
  \/ \E c \in {"cron", "endpoint"}, ok \in BOOLEAN : CheckSelect(c, ok)
  \/ \E c \in {"cron", "endpoint"}, ok \in BOOLEAN : CheckMark(c, ok)

SpecTrigger == InitTrigger /\ [][NextTrigger]_vars

\* one invocation of a function that looks the cache up chunk by chunk
InitChunked ==
  /\ call = NoCall
  /\ \E f \in InitialNames :
       records = [p \in PlaceIds |-> [google_name |-> f[p], natural_name |-> Null]]
  /\ cache \in EarlierCaches \cup
               { {[original_name |-> n, natural_name |-> <<"y">>, usage_count |-> 1] :
                    n \in {NameA, NameB}} }
  /\ run = IdleRun
  /\ config \in [BATCH_SIZE : {1}, CONCURRENCY : {1}, batchSize : {1},
                chunkSize : {100}, lookupChunk : 1..MaxBatchSize]
  /\ conc = IdleConc
  /\ uniq = IdleChunked
  /\ hist = NewHist

NextChunked ==
  \/ \E fn \in {"getUncachedRecordsByCategories", "forceUpdateBoutiques"},
        limit \in 1..MaxRecords, S \in SUBSET PlaceIds, ok \in BOOLEAN :
       ChunkedFetch(fn, limit, S, ok)
  \/ \E answered \in BOOLEAN : ChunkedLookup(answered)
  \/ \E S \in SUBSET PlaceIds, ok \in BOOLEAN : ChunkedFinish(S, ok)

SpecChunked == InitChunked /\ [][NextChunked]_vars

----------------------------------------------------------------------------
(* The claims *)

FailedUpdates(r) == {k \in 1..Len(r.settled) : r.settled[k] = "failed"}

Completed == run.pc = "done" /\ run.stats.status = "completed"

\* C1: every call of naturalizeNames on n names returns exactly n elements,
\* whatever the upstream response (short, long, empty, repeated failure).
C1_LengthInvariant ==
  call.pc = "returned" => Len(call.result) = Len(call.names)

\* C2: after a run that completed with no failed update, all records the
\* run fetched that share a display name carry the same resolved name.
C2_FanOut ==
  (Completed /\ FailedUpdates(run) = {}) =>
    \A j, k \in 1..Len(run.records) :
      run.records[j].google_name = run.records[k].google_name =>
        /\ records[run.records[j].place_id].natural_name # Null
        /\ records[run.records[j].place_id].natural_name =
             records[run.records[k].place_id].natural_name

C2_Witness ==
  /\ Completed /\ FailedUpdates(run) = {} /\ hist.requested
  /\ \E j, k \in 1..Len(run.records) :
       /\ j # k
       /\ run.records[j].google_name = run.records[k].google_name
       /\ records[run.records[j].place_id].natural_name = <<"x">>

C4_QuotaFatal ==
  \A i \in 1..Len(hist.log) :
    hist.log[i] = 402 =>
      /\ i = Len(hist.log)
      /\ call.pc \notin {"sleeping", "request", "returned"}

\* C5: while every attempt fails with a transient error, naturalizeNames
\* retries after the same fixed delay, at most MAX_RETRIES times; after the
\* last failure it returns the input names unchanged.
C5_TransientRetry ==
  (hist.log # <<>> /\ \A i \in 1..Len(hist.log) : hist.log[i] = 500) =>
    /\ Len(hist.log) <= MAX_RETRIES + 1
    /\ call.retryCount <= MAX_RETRIES
    /\ \A d \in 1..Len(call.delays) : call.delays[d] = call.delays[1]
    /\ Len(hist.log) <= MAX_RETRIES =>
         /\ call.pc \in {"sleeping", "request"}
         /\ Len(call.delays) = Len(hist.log)
    /\ Len(hist.log) = MAX_RETRIES + 1 =>
         /\ call.pc = "returned"
         /\ Len(call.delays) = MAX_RETRIES
         /\ call.result = call.names

C5_Witness ==
  /\ call.pc = "returned"
  /\ Len(call.names) = 2
  /\ hist.log = <<500, 500, 500, 500>>
  /\ call.result = call.names

\* C6: the delay waited after a rate-limited attempt (429) grows with every
\* successive attempt, and there are at most MAX_RETRIES retries.
C6_RateLimitBackoff ==
  /\ Len(call.delays) <= MAX_RETRIES
  /\ \A i, j \in 1..Len(call.delays) :
       (i < j /\ hist.log[i] = 429 /\ hist.log[j] = 429) =>
         call.delays[i] < call.delays[j]

\* C7: a response of k parsed lines for a batch of n > k names: the names
\* returned are the k lines followed by the input names k+1..n, nothing is
\* raised, and processBatch hands saveToCache one entry per name of the batch.
C7_ShortResponsePadded ==
  (run.pc = "save" /\ run.answered /\ Len(run.parsed) < Len(run.batch)) =>
    /\ run.naturalNames =
         run.parsed \o SubSeq(run.batch, Len(run.parsed) + 1, Len(run.batch))
    /\ Len(run.cacheEntries) = Len(run.batch)
    /\ \A j \in 1..Len(run.batch) :
         /\ run.cacheEntries[j].original_name = run.batch[j]
         /\ j > Len(run.parsed) =>
              run.cacheEntries[j].natural_name = run.batch[j]

C7_Witness ==
  /\ run.pc = "save" /\ run.answered
  /\ Len(run.parsed) = 1 /\ Len(run.batch) = 2
  /\ Len(run.cacheEntries) = 2

\* C8 (as stated): a response with more parsed lines than the batch has
\* names: the name at index i is mapped to line i, and nothing is derived
\* from a line beyond the batch.
C8_ExtrasIgnored ==
  (run.pc = "save" /\ run.answered /\ Len(run.parsed) > Len(run.batch)) =>
    /\ Len(run.cacheEntries) = Len(run.batch)
    /\ \A j \in 1..Len(run.batch) :
         /\ run.cacheEntries[j].original_name = run.batch[j]
         /\ run.cacheEntries[j].natural_name = run.parsed[j]

\* C8 (amended): the name at index i is mapped to line i, or to itself when
\* line i is empty once its ordinal marker is stripped; no cache entry and
\* no entry of the map the record updates are built from is derived from a
\* line beyond the batch.
C8_ExtrasIgnoredOrSelf ==
  (run.pc = "save" /\ run.answered /\ Len(run.parsed) > Len(run.batch)) =>
    /\ Len(run.cacheEntries) = Len(run.batch)
    /\ \A j \in 1..Len(run.batch) :
         /\ run.cacheEntries[j].original_name = run.batch[j]
         /\ run.cacheEntries[j].natural_name =
              (IF run.parsed[j] = <<>> THEN run.batch[j] ELSE run.parsed[j])
         /\ Get(run.naturalizedMap, run.batch[j]) =
              run.cacheEntries[j].natural_name
    /\ DOMAIN run.naturalizedMap \subseteq
         {run.uniqueNames[u] : u \in 1..Len(run.uniqueNames)}

C8_Witness ==
  /\ run.pc = "save" /\ run.answered
  /\ Len(run.batch) = 2 /\ Len(run.parsed) = 3
  /\ run.cacheEntries[1].natural_name = <<"x">>
  /\ run.cacheEntries[2].natural_name = <<"y">>

\* C9: an upsert of a name the cache holds with a different natural name
\* leaves exactly one entry for the name, with the new natural name and its
\* usage_count incremented.
C9_UpsertReplaces ==
  [][ (run.pc = "save" /\ run'.stats.naturalized # run.stats.naturalized) =>
        \A j \in 1..Len(run.cacheEntries) :
          LET e == run.cacheEntries[j]
              old == {r \in cache : r.original_name = e.original_name}
              new == {r \in cache' : r.original_name = e.original_name}
          IN (old # {} /\ \A o \in old : o.natural_name # e.natural_name) =>
               /\ Cardinality(new) = 1
               /\ \A r \in new :
                    /\ r.natural_name = e.natural_name
                    /\ \A o \in old : r.usage_count = o.usage_count + 1 ]_vars

C9_Witness ==
  \E r \in cache : r.usage_count = 2 /\ r.natural_name = <<"y">>

\* C10: a failed record update leaves the other updates of its chunk
\* applied, the run completes, and the errors the run reports for the
\* propagation are exactly the failed updates.
C10_FailuresIsolatedAndCounted ==
  Completed =>
    /\ \A k \in 1..Len(run.updates) :
         run.settled[k] = "ok" =>
           records[run.updates[k].place_id].natural_name =
             run.updates[k].natural_name
    /\ run.stats.errors = run.errors0 + Cardinality(FailedUpdates(run))

\* the distinct display names of a list of fetched records
NamesOf(recs) == {recs[k].google_name : k \in 1..Len(recs)}

\* C13: within a run of processBatch no request is posted before the cache
\* lookup has answered, naturalizeNames is called only with names the lookup
\* did not answer, and a run whose names are all cache hits posts no request.
C13_LookupBeforeCalls ==
  /\ hist.requested => run.pc \notin {"idle", "fetch", "lookup"}
  /\ call.pc # "none" =>
       /\ run.pc = "natcall"
       /\ \A j \in 1..Len(call.names) :
            /\ \E u \in 1..Len(run.uncachedNames) :
                 run.uncachedNames[u] = call.names[j]
            /\ OrElse(Get(run.naturalizedMap, call.names[j]), Null) = Null
  /\ (/\ run.pc \in {"update", "finish", "done"}
      /\ run.records # <<>>
      /\ run.stats.from_cache = Cardinality(NamesOf(run.records))) =>
       /\ ~hist.requested
       /\ run.stats.api_calls = 0

C13_Witness ==
  /\ run.pc = "natcall"
  /\ run.stats.from_cache = 1
  /\ Len(run.uniqueNames) = 2
  /\ call.names = <<NameB>>

\* the requests to the generation API that are pending
PendingRequests ==
  Cardinality({t \in 1..Len(conc.tasks) : conc.tasks[t].call.pc = "request"})
    + (IF call.pc = "request" THEN 1 ELSE 0)

\* C14: every call of naturalizeNames goes through the concurrency gate: at
\* every moment at most CONCURRENCY requests to the generation API are
\* pending.
C14_GateBoundsInFlight == PendingRequests <= CONCURRENCY

\* C16: when a run of processBatch and a run of processConcurrently that
\* overlapped have both finished, the records with the same display name
\* carry the same resolved name, the natural name of the cache entry of
\* that display name.
C16_OverlapOneName ==
  (run.pc = "done" /\ conc.pc = "done") =>
    \A p, q \in PlaceIds :
      (/\ records[p].google_name = records[q].google_name
       /\ records[p].natural_name # Null
       /\ records[q].natural_name # Null) =>
        /\ records[p].natural_name = records[q].natural_name
        /\ \A r \in cache :
             r.original_name = records[p].google_name =>
               r.natural_name = records[p].natural_name

\* the entries handed to the cache by the step that changes it: those of the
\* batch of processBatch, or the one of the task that returns
Upserted ==
  IF run' # run
    THEN {run.cacheEntries[j] : j \in 1..Len(run.cacheEntries)}
    ELSE {[original_name |-> conc.tasks[t].name,
           natural_name |-> Get(conc.naturalizedMap, conc.tasks[t].name)] :
            t \in {u \in 1..Len(conc.tasks) :
                     /\ conc.tasks[u].pc = "saving"
                     /\ (conc'.pc # "tasks" \/ conc'.tasks[u].pc = "done")}}

\* C17: every upsert of overlapping runs leaves one cache entry per original
\* name, the entries it wrote holding the natural names it was given, and
\* every entry of another name as it was.
C17_ConcurrentUpserts ==
  [][ cache' # cache =>
        /\ \A r1, r2 \in cache' :
             r1.original_name = r2.original_name => r1 = r2
        /\ \A e \in Upserted :
             \E r \in cache' : /\ r.original_name = e.original_name
                               /\ r.natural_name = e.natural_name
        /\ \A r \in cache :
             (\A e \in Upserted : e.original_name # r.original_name) =>
               r \in cache'
        /\ \A r \in cache' :
             \/ r \in cache
             \/ \E e \in Upserted : e.original_name = r.original_name ]_vars

C17_Witness ==
  /\ run.stats.naturalized >= 1
  /\ conc.stats.naturalized >= 1
  /\ \E r \in cache : r.original_name = NameB /\ r.usage_count = 2
  /\ \E r \in cache : r.original_name = NameA

\* C19: the natural name of a record changes only from NULL to a value: no
\* step writes a record whose natural name is already set, also when two
\* runs overlap.
C19_WriteOnce ==
  [][ \A p \in PlaceIds :
        records[p].natural_name # Null =>
          records'[p].natural_name = records[p].natural_name ]_vars

\* C15: once a request of a concurrent run has been refused for exhausted
\* quota, no task that has not started is started, and the run does not
\* return its stats as a completed run.
C15_QuotaStopsAdmission ==
  [][ (hist.quota /\ conc.pc = "tasks") =>
        /\ \A t \in QueuedTasks(conc) :
             conc'.pc = "tasks" => conc'.tasks[t].pc = "queued"
        /\ conc'.stats.status # "returned" ]_vars

\* the run in progress is the one that follows a killed run which left cache
\* entries for pending rows
AfterCrash == hist.crash.rows # {} /\ hist.runNo = hist.crash.at + 1

\* the names of the cache entries the killed run left for pending rows
CrashNames == {records[e.place_id].google_name : e \in hist.crash.rows}

\* C18 as stated: a kill leaves the cache and the rows as they are; the run
\* that follows posts no request for a name cached at the kill, and when it
\* has completed every row pending at the kill carries the cached name.
C18_CrashThenCacheServes ==
  /\ [][ /\ hist'.crash # hist.crash => (cache' = cache /\ records' = records)
         /\ (AfterCrash /\ call.pc = "none" /\ call'.pc = "request") =>
              \A j \in 1..Len(call'.names) : call'.names[j] \notin CrashNames
       ]_vars
  /\ [](  (AfterCrash /\ Completed) =>
            \A e \in hist.crash.rows :
              records[e.place_id].natural_name = e.natural_name )

\* C18, amended: the same for a following run whose cache lookup answered,
\* and for the rows it fetched and whose update succeeded.
C18_CrashThenCacheServesWhenClean ==
  /\ [][ /\ hist'.crash # hist.crash => (cache' = cache /\ records' = records)
         /\ (/\ AfterCrash /\ call.pc = "none" /\ call'.pc = "request"
             /\ run.stats.from_cache > 0) =>
              \A j \in 1..Len(call'.names) : call'.names[j] \notin CrashNames
       ]_vars
  /\ [](  (AfterCrash /\ Completed /\ run.stats.from_cache > 0) =>
            \A e \in hist.crash.rows :
              \A k \in 1..Len(run.updates) :
                (run.updates[k].place_id = e.place_id /\ run.settled[k] = "ok")
                  => records[e.place_id].natural_name = e.natural_name )

C18_Witness ==
  /\ AfterCrash /\ Completed
  /\ run.stats.from_cache = 1
  /\ run.stats.api_calls = 1
  /\ \E e \in hist.crash.rows :
       /\ e.natural_name = <<"x">>
       /\ records[e.place_id].natural_name = <<"x">>
       /\ \E k \in 1..Len(run.updates) :
            run.updates[k].place_id = e.place_id /\ run.settled[k] = "ok"

\* C11: a run that ends on exhausted credits answers a failure whose stats
\* carry the fatal condition and the count of the names processed before.
C11_QuotaPartialStats ==
  (uniq.pc = "failed" /\ uniq.result.code = "CREDITS_EXHAUSTED") =>
    /\ uniq.result.success = FALSE
    /\ "processed" \in DOMAIN uniq.result
    /\ uniq.result.processed = uniq.totalProcessed

\* C12: the rows whose names a run of processUniqueNames had not finished
\* when it ended on exhausted credits are left pending by that end, and are
\* written only by a later run that has fetched their name again.
C12_UnresolvedStayPending ==
  [][ /\ hist'.unres # hist.unres =>
           \A p \in hist'.unres.rows : records'[p] = records[p]
      /\ \A p \in hist.unres.rows :
           records'[p] # records[p] =>
             /\ hist.runNo > hist.unres.at
             /\ \E j \in 1..Len(uniq.uniqueNames) :
                  uniq.uniqueNames[j] = records[p].google_name ]_vars

C12_Witness ==
  /\ hist.runNo > hist.unres.at
  /\ uniq.pc = "done"
  /\ \E p, q \in hist.unres.rows :
       /\ records[p].google_name = NameA /\ records[p].natural_name = <<"y">>
       /\ records[q].google_name = NameB /\ records[q].natural_name = <<"x">>

\* C20: display names that are empty or only white space are left out of
\* the names to resolve: none is looked up or sent to naturalizeNames, none
\* gets a cache entry, and the rows that carry them stay pending.
C20_BlankExcluded ==
  /\ \A j \in 1..Len(run.uniqueNames) : run.uniqueNames[j] \notin BlankNames
  /\ \A j \in 1..Len(call.names) : call.names[j] \notin BlankNames
  /\ \A r \in cache : r.original_name \notin BlankNames
  /\ \A p \in PlaceIds :
       records[p].google_name \in BlankNames => records[p].natural_name = Null

\* C21: grouping the fetched records by name never fails; it yields every
\* distinct display name once, and an index in which every fetched record
\* stands once, under its own name.
C21_DedupIndex ==
  /\ conc.error # "TypeError"
  /\ conc.pc \in {"lookup", "tasks"} =>
       LET idx == nameToRecords(conc.records).map IN
       /\ \A i, j \in 1..Len(conc.uniqueNames) :
            conc.uniqueNames[i] = conc.uniqueNames[j] => i = j
       /\ {conc.uniqueNames[j] : j \in 1..Len(conc.uniqueNames)} = DOMAIN idx
       /\ \A k \in 1..Len(conc.records) :
            \A n \in DOMAIN idx :
              Cardinality({j \in 1..Len(idx[n]) : idx[n][j] = conc.records[k]})
                = IF n = conc.records[k].google_name THEN 1 ELSE 0

\* C22: every call of naturalizeNames, from any caller, carries at most
\* BATCH_SIZE names.
C22_CallWithinBatchSize ==
  /\ Len(call.names) <= BATCH_SIZE
  /\ \A t \in 1..Len(conc.tasks) : Len(conc.tasks[t].call.names) <= BATCH_SIZE

\* the updates of the two pipelines that are dispatched and not settled
UpdatesInFlight ==
  (IF run.pc = "update" THEN Cardinality(InFlight(run)) ELSE 0)
  + (IF conc.pc = "update"
       THEN Cardinality({k \in 1..Len(conc.settled) : conc.settled[k] = "pending"})
       ELSE 0)

\* C23: at every moment at most chunkSize record updates are in flight.
C23_ChunkedUpdates == UpdatesInFlight <= chunkSize

C25_OnlyQuotaFailsRun == run.pc = "failed" => hist.requested

\* C26: the cache lookup never ends the run; a lookup that answers nothing,
\* as it does on a backend error, leaves every unique name of the run to be
\* sent to naturalizeNames, and the cache as it is.
C26_LookupFailureIsAllMiss ==
  [][ (run.pc = "lookup" /\ run' # run) =>
        /\ run'.pc \in {"batch", "update"}
        /\ cache' = cache
        /\ run'.stats.from_cache = 0 =>
             /\ run'.pc = "batch"
             /\ run'.uncachedNames = run.uniqueNames ]_vars

C26_Witness ==
  /\ run.pc = "natcall"
  /\ run.stats.from_cache = 0
  /\ \E r \in cache : r.original_name = call.names[1]
  /\ hist.runNo = 2

\* the entries that map every name of the batch to itself are in the cache c
FallbackIn(c) ==
  \A j \in 1..Len(run.batch) :
    \E r \in c : r.original_name = run.batch[j] /\ r.natural_name = run.batch[j]

\* C27 as stated: when naturalizeNames gave up on a batch and returned the
\* names unchanged, the cache holds every name of the batch, mapped to
\* itself, once processBatch has gone past the write.
C27_FallbackAlwaysCached ==
  [][ (run.pc = "save" /\ ~run.answered /\ run'.pc # "save") =>
        FallbackIn(cache') ]_vars

\* C27, amended: such a batch is handed whole to saveToCache, each name with
\* itself as natural name; past the write the cache holds these entries,
\* unless the write failed, which leaves the cache as it was and is counted
\* as an error; and a run whose lookup found entries sends no name that has
\* a cache entry.
C27_FallbackCached ==
  /\ []( (run.pc = "save" /\ ~run.answered) =>
           run.cacheEntries = Identity(run.batch) )
  /\ [][ (run.pc = "save" /\ ~run.answered /\ run'.pc # "save") =>
           \/ FallbackIn(cache')
           \/ /\ cache' = cache
              /\ run'.stats.errors = run.stats.errors + 1 ]_vars
  /\ []( (call.pc = "request" /\ run.stats.from_cache > 0) =>
           \A j \in 1..Len(call.names) :
             \A r \in cache : r.original_name # call.names[j] )

C27_Witness ==
  /\ run.pc = "pacing"
  /\ ~run.answered
  /\ run.batch = <<NameA>>
  /\ \E r \in cache : r.original_name = NameA /\ r.natural_name = NameA

\* the usage_count of the cache entry of name n in the cache c, 0 without one
UsageOf(c, n) ==
  IF \E r \in c : r.original_name = n
    THEN (CHOOSE r \in c : r.original_name = n).usage_count ELSE 0

\* C28: the usage_count of a cache entry never decreases, and it goes up by
\* one whenever a lookup of processBatch finds the entry and whenever
\* saveToCache writes it again, also with the value it holds.
C28_UsageCounted ==
  [][ /\ \A r \in cache : UsageOf(cache', r.original_name) >= r.usage_count
      /\ (run.pc = "lookup" /\ run'.pc # "lookup") =>
           \A n \in DOMAIN run'.naturalizedMap :
             UsageOf(cache', n) = UsageOf(cache, n) + 1
      /\ (run.pc = "save" /\ run'.stats.naturalized > run.stats.naturalized) =>
           \A j \in 1..Len(run.cacheEntries) :
             UsageOf(cache', run.cacheEntries[j].original_name)
               = UsageOf(cache, run.cacheEntries[j].original_name) + 1 ]_vars

C30_FailedChunkKeepsOthers ==
  /\ [][ uniq'.failures > uniq.failures =>
           uniq'.pc = "lookup" /\ uniq'.merged = uniq.merged ]_vars
  /\ []( (uniq.pc = "lookup" /\ uniq.i >= Len(uniq.uniqueNames)) =>
           \A j \in 1..Len(uniq.uniqueNames) :
             LET n == uniq.uniqueNames[j] IN
             IF n \in uniq.failed
               THEN n \notin DOMAIN uniq.merged
               ELSE \A r \in cache :
                      r.original_name = n =>
                        n \in DOMAIN uniq.merged /\ uniq.merged[n] = r.natural_name )

\* C31: the run's 'naturalized' counter grows only by names for which the
\* generation API returned a result; a batch resolved by the identity
\* fallback (no attempt answered) adds nothing to it.
C31_FallbackNotCounted ==
  [][ run'.stats.naturalized > run.stats.naturalized => run.answered ]_vars

\* the phases of one processBatch run, in the order of the state machine
PhaseRank(pc) ==
  CASE pc = "idle" -> 0
    [] pc = "fetch" -> 1
    [] pc = "lookup" -> 2
    [] pc \in {"batch", "natcall", "save", "pacing"} -> 3
    [] pc = "update" -> 4
    [] pc = "finish" -> 5
    [] OTHER -> 6

\* a run never goes back to an earlier phase, and a new run starts only
\* when the last one has ended
PhasesInOrder ==
  [][ IF run'.pc = "fetch" /\ run.pc # "fetch"
        THEN run.pc \in {"idle", "done", "failed"}
        ELSE PhaseRank(run'.pc) >= PhaseRank(run.pc) ]_vars

\* C32 as stated: the phases of a run occur in order, and while the records
\* are updated every update carries the name its cache entry holds: the
\* cache entry of each name was written before the name is propagated.
C32_CacheWrittenBeforePropagated ==
  /\ PhasesInOrder
  /\ []( run.pc = "update" =>
           \A k \in 1..Len(run.updates) :
             \E r \in cache :
               /\ r.original_name = run.records[k].google_name
               /\ r.natural_name = run.updates[k].natural_name )

\* C32: the phases of a run occur in order, and every update that carries a
\* name other than the record's own display name carries the name of the
\* cache entry written for it; an update without cache entry carries the
\* display name itself, and then an error was recorded in the run.
C32_ResolvedNameIsCached ==
  /\ PhasesInOrder
  /\ []( run.pc = "update" =>
           \A k \in 1..Len(run.updates) :
             \/ \E r \in cache :
                  /\ r.original_name = run.records[k].google_name
                  /\ r.natural_name = run.updates[k].natural_name
             \/ /\ run.updates[k].natural_name = run.records[k].google_name
                /\ run.errors0 > 0 )

\* a run that resolved a name through the API updates its record
C32_Witness ==
  /\ run.pc = "update"
  /\ run.stats.naturalized > 0
  /\ \E k \in 1..Len(run.updates) :
       /\ run.updates[k].natural_name # run.records[k].google_name
       /\ run.settled[k] = "ok"
       /\ \E r \in cache : /\ r.original_name = run.records[k].google_name
                           /\ r.natural_name = run.updates[k].natural_name

\* C33: in a concurrent run that reaches the propagation, every fetched
\* record has an update: each name has a resolution, the API result or the
\* name itself, and no record carrying it is left out.
C33_NoRecordDropped ==
  conc.pc \in {"update", "finish", "done"} =>
    \A k \in 1..Len(conc.records) :
      \E j \in 1..Len(conc.updates) :
        conc.updates[j].place_id = conc.records[k].place_id

\* C34: every call of naturalizeNames eventually returns, each attempt being
\* ended by a timeout even when the generation API never answers it.
C34_CallTerminates == <>(call.pc = "returned")

\* C35: in processBatch the batches are dispatched one at a time; every
\* batch after the first is reached through the pacing delay, and the delay
\* is entered only when a further batch remains.
C35_PacedBetweenBatches ==
  /\ [][ (run'.pc = "batch" /\ run.pc # "batch" /\ run'.i > 0) =>
           run.pc = "pacing" ]_vars
  /\ [](run.pc = "natcall" => call.pc # "none")
  /\ [](run.pc = "pacing" => run.i < Len(run.uncachedNames))

\* C36: continuousProcessing runs at most maxIterations iterations; an
\* iteration that failed otherwise than by quota exhaustion is followed by
\* the loop going on; and once the generation API has answered an attempt
\* with 402 (quota exhausted), no further iteration is started.
C36_ContinuousStops ==
  /\ [](uniq.iteration <= uniq.maxIterations)
  /\ [][ (conc.pc = "failed" /\ uniq'.pc # uniq.pc) => uniq'.pc = "loop" ]_vars
  /\ [][ uniq'.iteration > uniq.iteration => ~hist.quota ]_vars

\* C37: a call of naturalizeNames is always waiting for an answer, waiting
\* to retry, or returned: no failure, of whatever status, leaves it. It
\* makes at most MAX_RETRIES + 1 attempts; all but the last are failures,
\* each followed by a retry; and a call none of whose attempts was answered
\* returns, after MAX_RETRIES + 1 failures, the names it was given.
C37_NeverRaises ==
  /\ call.pc \in {"request", "sleeping", "returned"}
  /\ Len(hist.log) <= MAX_RETRIES + 1
  /\ \A i \in 1..(Len(hist.log) - 1) : hist.log[i] \in ErrorStatus
  /\ call.retryCount = (IF call.pc = "request" THEN Len(hist.log)
                                               ELSE Len(hist.log) - 1)
  /\ (call.pc = "sleeping") =>
       hist.log[Len(hist.log)] \in ErrorStatus /\ call.retryCount < MAX_RETRIES
  /\ (call.pc = "returned" /\ hist.log[Len(hist.log)] \in ErrorStatus) =>
       /\ Len(hist.log) = MAX_RETRIES + 1
       /\ call.result = call.names

\* a call whose attempts failed with statuses of every kind has returned
\* the names it was given
C37_Witness ==
  /\ call.pc = "returned"
  /\ call.result = call.names
  /\ Len(hist.log) = MAX_RETRIES + 1
  /\ {hist.log[i] : i \in 1..Len(hist.log)} = ErrorStatus

\* C38: every cache entry a run writes or changes has as key the display
\* name of a record the run fetched.
C38_CacheKeysAreFetchedNames ==
  [][ \A r \in cache' \ cache :
        \E k \in 1..Len(run.records) :
          run.records[k].google_name = r.original_name ]_vars

\* C39: no two runs are started for the same pending trigger row, whether
\* by a later or by a concurrent check; and a check that finds no pending
\* row starts no run and changes no trigger row.
C39_OneRunPerTrigger ==
  /\ [](\A i, j \in 1..Len(uniq.started) :
          i # j => uniq.started[i] # uniq.started[j])
  /\ [][ (uniq'.checked > uniq.checked) =>
           uniq'.triggers = uniq.triggers /\ uniq'.started = uniq.started ]_vars

====
